---------------------------- MODULE Spec2Model ----------------------------
(***************************************************************************)
(* Ingestion pipeline of app/rag/ingest.py: content-hash dedup gate,       *)
(* registry of ingestion outcomes, heading-aware chunking, and the         *)
(* delete / bulk-write contract with the vector store.                     *)
(*                                                                         *)
(* Text is modelled line by line.  A line is one of                        *)
(*   "H"  a heading line (matches _HEADING_RE),                            *)
(*   "S"  a short paragraph,   "L"  a long paragraph,                      *)
(*   "B"  a blank (whitespace-only) line.                                  *)
(* Lengths are counted in characters, one newline between lines.           *)
(***************************************************************************)
EXTENDS Integers, Sequences, FiniteSets, Bags, TLC

VARIABLES
    registry,       \* rag_ingestion_registry: (collection_name, file_hash) -> row
    pg_collection,  \* langchain_pg_collection: names of the collections that exist
    pg_embedding,   \* langchain_pg_embedding: bag of stored vectors
    inv,            \* per caller: the ingest_pdf_report invocation in flight
    last,           \* summary of the invocation that completed before the current one
    raw_documents,  \* input of build_chunks_from_pages
    chunks,         \* result of build_chunks_from_pages
    cstate,         \* "input" | "built" | "unused": phase of the function under study
    tx,             \* per caller: the registry statement sent and not yet applied
    applied,        \* per registry key: the statement applied last
    op,             \* the vector-store call made last
    tag_text,       \* argument of _detect_tags
    tags,           \* result of _detect_tags
    head_text,      \* the text _HEADING_RE is searched in
    heading,        \* whether _HEADING_RE matched at the first line
    env,            \* configuration of the alias sources
    loaded,         \* result of load_item_and_variety_aliases_async
    batch,          \* the loop over the PDF files of lifespan / process_all_files
    filter_args,    \* arguments of _filter_docs_by_tags
    filter_out      \* result of _filter_docs_by_tags

vars == <<registry, pg_collection, pg_embedding, inv, last, raw_documents, chunks, cstate,
          tx, applied, op, tag_text, tags, head_text, heading, env, loaded,
          batch, filter_args, filter_out>>

ingestVars == <<registry, pg_collection, pg_embedding, inv, last>>
chunkVars == <<raw_documents, chunks, cstate>>
otherVars == <<tx, applied, op, tag_text, tags, head_text, heading, env, loaded,
               filter_args, filter_out>>

None == "None"

-----------------------------------------------------------------------------
(* Bounds *)

MaxPages == 2
MaxLines == 2
ShortLen == 300
LongLen == 5000
HeadingLen == 20
MaxTextLen == 4

-----------------------------------------------------------------------------
(* Text *)

LineKinds == {"H", "S", "L", "B"}

LineLen(l) ==
    CASE l = "H" -> HeadingLen
      [] l = "S" -> ShortLen
      [] l = "L" -> LongLen
      [] OTHER -> 0

RECURSIVE LStrip(_)
LStrip(t) ==
    IF t = <<>> THEN <<>>
    ELSE IF Head(t) = "B" THEN LStrip(Tail(t))
    ELSE t

RECURSIVE RStrip(_)
RStrip(t) ==
    IF t = <<>> THEN <<>>
    ELSE IF t[Len(t)] = "B" THEN RStrip(SubSeq(t, 1, Len(t) - 1))
    ELSE t

\* str.strip()
Strip(t) == RStrip(LStrip(t))

RECURSIVE SumLen(_)
SumLen(t) == IF t = <<>> THEN 0 ELSE LineLen(Head(t)) + SumLen(Tail(t))

\* len(text)
TextLen(t) == IF t = <<>> THEN 0 ELSE SumLen(t) + (Len(t) - 1)

Min(a, b) == IF a <= b THEN a ELSE b

\* str(idx) for idx >= 0: the decimal digits, most significant first
Digit(d) == <<"0", "1", "2", "3", "4", "5", "6", "7", "8", "9">>[d + 1]

RECURSIVE str(_)
str(n) == IF n < 10 THEN <<Digit(n)>> ELSE str(n \div 10) \o <<Digit(n % 10)>>

-----------------------------------------------------------------------------
(* Chunking *)

chunk_size == 1200
chunk_overlap == 150
SectionCeiling == 8000

\* _HEADING_RE.finditer(text): the heading lines, in order.  With re.MULTILINE
\* "^\s*" also consumes the blank lines right before a heading line, so a
\* match starts at the first line of that blank run.
HeadingLines(text) == {i \in 1..Len(text) : text[i] = "H"}

MatchStart(text, i) ==
    LET prev == {j \in HeadingLines(text) : j < i}
        lo == IF prev = {} THEN 1 ELSE (CHOOSE j \in prev : \A k \in prev : k <= j) + 1
        cand == {s \in lo..i : \A k \in s..(i - 1) : text[k] = "B"}
    IN CHOOSE s \in cand : \A u \in cand : s <= u

SortedSeq(S) ==
    CHOOSE s \in [1..Cardinality(S) -> S] :
        \A a, b \in 1..Cardinality(S) : a < b => s[a] < s[b]

split_by_headings(text) ==
    LET m == SortedSeq(HeadingLines(text))
    IN IF m = <<>> THEN << [title |-> "", body |-> text] >>
       ELSE [i \in 1..Len(m) |->
               LET start == MatchStart(text, m[i])
                   end == IF i + 1 <= Len(m) THEN MatchStart(text, m[i + 1]) ELSE Len(text) + 1
               IN [title |-> "H", body |-> Strip(SubSeq(text, start, end - 1))]]

\* RecursiveCharacterTextSplitter.create_documents([section_text]): spans of at
\* most size characters, consecutive spans sharing overlap characters.
NumSpans(n, size, overlap) ==
    IF n = 0 THEN 0
    ELSE IF n <= size THEN 1
    ELSE 1 + ((n - size) + (size - overlap) - 1) \div (size - overlap)

create_documents(n, size, overlap) ==
    [i \in 1..NumSpans(n, size, overlap) |->
        LET from == (i - 1) * (size - overlap)
        IN [from |-> from, to |-> Min(from + size, n)]]

\* the metadata dict of a chunk; a key that is not set yet is None ("" for chunk_id)
NoMetadata ==
    [section_title |-> None, page |-> None, chunk_id |-> <<>>,
     doc_category |-> None, period |-> None, source |-> None, file_name |-> None,
     file_hash |-> None, doc_id |-> None, tagged |-> FALSE]

\* the sub-documents of one page, lines 224-236
PageChunks(pidx, page_doc, size, overlap) ==
    LET page_text == Strip(page_doc.page_content)
    IN IF page_text = <<>> THEN <<>>
       ELSE LET sections == split_by_headings(page_text)
                RECURSIVE Secs(_)
                Secs(k) ==
                    IF k > Len(sections) THEN <<>>
                    ELSE LET n == Min(TextLen(sections[k].body), SectionCeiling)
                             sub_docs == create_documents(n, size, overlap)
                         IN [j \in 1..Len(sub_docs) |->
                               [page_content |-> sub_docs[j],
                                origin |-> <<pidx, k, j>>,
                                metadata |-> [NoMetadata EXCEPT
                                                 !.section_title = sections[k].title,
                                                 !.page = page_doc.page]]]
                            \o Secs(k + 1)
            IN Secs(1)

RECURSIVE AllPageChunks(_, _, _, _)
AllPageChunks(docs, pidx, size, overlap) ==
    IF pidx > Len(docs) THEN <<>>
    ELSE PageChunks(pidx, docs[pidx], size, overlap) \o AllPageChunks(docs, pidx + 1, size, overlap)

\* enumerate(chunks): d.metadata["chunk_id"] = str(idx)
EnumerateFromOne(cs) ==
    [i \in 1..Len(cs) |->
        [cs[i] EXCEPT !.metadata.chunk_id = str(i)]]

Enumerate(cs) ==
    [i \in 1..Len(cs) |->
        [cs[i] EXCEPT !.metadata.chunk_id = str(i - 1)]]

build_chunks_from_pages(docs, size, overlap) ==
    Enumerate(AllPageChunks(docs, 1, size, overlap))


-----------------------------------------------------------------------------
(* Files, hashing, page extraction *)

Files == {"seeds/a.pdf", "seeds/b.pdf"}

\* os.path.basename
basename(file_path) ==
    CASE file_path = "seeds/a.pdf" -> "a.pdf"
      [] file_path = "seeds/b.pdf" -> "b.pdf"
      [] file_path = "seeds/c.pdf" -> "c.pdf"

\* sha256_file: hex digest of the bytes of the file
sha256_file(file_path) ==
    CASE file_path = "seeds/a.pdf" -> "sha_a"
      [] file_path = "seeds/b.pdf" -> "sha_b"
      [] file_path = "seeds/c.pdf" -> "sha_c"

Hashes == {sha256_file(f) : f \in Files}

\* PyPDFLoader(file_path).load(): the pages of the file, numbered from 0
PageDocs(contents) == [i \in 1..Len(contents) |-> [page_content |-> contents[i], page |-> i - 1]]

PyPDFLoader_load(file_path) ==
    CASE file_path = "seeds/a.pdf" -> PageDocs(<< <<"S", "H", "S">>, <<"B">>, <<"H", "S">> >>)
      [] file_path = "seeds/b.pdf" -> PageDocs(<< <<"B", "B">>, <<>> >>)
      [] file_path = "seeds/c.pdf" -> PageDocs(<< <<"H", "S">> >>)

DEFAULT_COLLECTION == "agri_reports"
Collections == {DEFAULT_COLLECTION}
Categories == {"seed_category"}
ReportDates == {None}
Sources == {"System_Seed"}

-----------------------------------------------------------------------------
(* Registry store *)

NoRow == [status |-> "ABSENT"]
Keys == Collections \X Hashes

registry_existsWrongStatus(reg, collection_name, file_hash) ==
    reg[<<collection_name, file_hash>>].status = "DONE"

registry_existsAnyRow(reg, collection_name, file_hash) ==
    reg[<<collection_name, file_hash>>].status # "ABSENT"

\* the WHERE clause lacks collection_name = :c
registry_existsAnyCollection(reg, collection_name, file_hash) ==
    \E k \in DOMAIN reg : k[2] = file_hash /\ reg[k].status = "SUCCESS"

registry_exists(reg, collection_name, file_hash) ==
    reg[<<collection_name, file_hash>>].status = "SUCCESS"

\* ON CONFLICT DO NOTHING instead of DO UPDATE
registry_upsert_successNoUpdate(reg, collection_name, file_name, file_hash, category, period, source) ==
    IF reg[<<collection_name, file_hash>>].status # "ABSENT" THEN reg
    ELSE [reg EXCEPT ![<<collection_name, file_hash>>] =
            [file_name |-> file_name, category |-> category, period |-> period,
             source |-> source, status |-> "SUCCESS", error |-> None]]

\* the DO UPDATE list lacks error = NULL
registry_upsert_successKeepsError(reg, collection_name, file_name, file_hash, category, period, source) ==
    LET old == reg[<<collection_name, file_hash>>]
    IN [reg EXCEPT ![<<collection_name, file_hash>>] =
          [file_name |-> file_name, category |-> category, period |-> period,
           source |-> source, status |-> "SUCCESS",
           error |-> IF old.status = "ABSENT" THEN None ELSE old.error]]

registry_upsert_success(reg, collection_name, file_name, file_hash, category, period, source) ==
    [reg EXCEPT ![<<collection_name, file_hash>>] =
        [file_name |-> file_name, category |-> category, period |-> period,
         source |-> source, status |-> "SUCCESS", error |-> None]]

\* ON CONFLICT DO NOTHING instead of DO UPDATE
registry_upsert_failedNoUpdate(reg, collection_name, file_name, file_hash, category, period, source, error) ==
    IF reg[<<collection_name, file_hash>>].status # "ABSENT" THEN reg
    ELSE [reg EXCEPT ![<<collection_name, file_hash>>] =
            [file_name |-> file_name, category |-> category, period |-> period,
             source |-> source, status |-> "FAILED", error |-> error]]

\* the DO UPDATE list sets status and error only
registry_upsert_failedStatusOnly(reg, collection_name, file_name, file_hash, category, period, source, error) ==
    LET old == reg[<<collection_name, file_hash>>]
    IN IF old.status = "ABSENT"
       THEN [reg EXCEPT ![<<collection_name, file_hash>>] =
               [file_name |-> file_name, category |-> category, period |-> period,
                source |-> source, status |-> "FAILED", error |-> error]]
       ELSE [reg EXCEPT ![<<collection_name, file_hash>>] =
               [old EXCEPT !.status = "FAILED", !.error = error]]

registry_upsert_failed(reg, collection_name, file_name, file_hash, category, period, source, error) ==
    [reg EXCEPT ![<<collection_name, file_hash>>] =
        [file_name |-> file_name, category |-> category, period |-> period,
         source |-> source, status |-> "FAILED", error |-> error]]

-----------------------------------------------------------------------------
(* Vector store *)

\* rows of langchain_pg_embedding of one collection and doc_id
DocRows(emb, collection_name, doc_id) ==
    {r \in DOMAIN emb : r.collection = collection_name /\ r.cmetadata.doc_id = doc_id}

\* matches the rows on cmetadata->>'file_name' instead of 'doc_id'
delete_vectors_by_doc_idWrongKey(emb, colls, collection_name, doc_id) ==
    IF collection_name \notin colls THEN emb
    ELSE LET keep == {r \in DOMAIN emb :
                         ~(r.collection = collection_name /\ r.cmetadata.file_name = doc_id)}
         IN [r \in keep |-> emb[r]]

\* the DELETE lacks collection_id = %s
delete_vectors_by_doc_idAnyCollection(emb, colls, collection_name, doc_id) ==
    IF collection_name \notin colls THEN emb
    ELSE LET keep == {r \in DOMAIN emb : r.cmetadata.doc_id # doc_id}
         IN [r \in keep |-> emb[r]]

delete_vectors_by_doc_id(emb, colls, collection_name, doc_id) ==
    IF collection_name \notin colls THEN emb
    ELSE LET keep == DOMAIN emb \ DocRows(emb, collection_name, doc_id)
         IN [r \in keep |-> emb[r]]

RECURSIVE SeqToBag(_)
SeqToBag(s) == IF s = <<>> THEN EmptyBag ELSE SetToBag({Head(s)}) (+) SeqToBag(Tail(s))

\* the rows are keyed by their content: a row that is already stored is not added
from_documentsKeyed(emb, collection_name, documents) ==
    LET new == SeqToBag([i \in 1..Len(documents) |->
                           [collection |-> collection_name,
                            document |-> documents[i].page_content,
                            cmetadata |-> documents[i].metadata]])
    IN emb (+) [r \in DOMAIN new \ DOMAIN emb |-> new[r]]

\* PGVector.from_documents(documents=splits, collection_name=...)
from_documents(emb, collection_name, documents) ==
    emb (+) SeqToBag([i \in 1..Len(documents) |->
                        [collection |-> collection_name,
                         document |-> documents[i].page_content,
                         cmetadata |-> documents[i].metadata]])

RECURSIVE BagSum(_, _)
BagSum(b, S) ==
    IF S = {} THEN 0
    ELSE LET r == CHOOSE x \in S : TRUE IN b[r] + BagSum(b, S \ {r})

\* number of stored vectors of a document
VectorCount(emb, collection_name, doc_id) == BagSum(emb, DocRows(emb, collection_name, doc_id))

\* number of stored copies of one chunk of a document
Copies(emb, collection_name, doc_id, chunk_id) ==
    BagSum(emb, {r \in DocRows(emb, collection_name, doc_id) : r.cmetadata.chunk_id = chunk_id})

-----------------------------------------------------------------------------
(* ingest_pdf_report *)

Procs == {"t1", "t2"}
SeqProcs == {"t1"}
MaxCopies == 2

Idle ==
    [pc |-> "idle", file_path |-> None, collection_name |-> None, force |-> FALSE,
     category |-> None, report_date |-> None, source |-> None,
     file_name |-> None, file_hash |-> None, pages |-> <<>>, splits |-> <<>>,
     tagged |-> 0, calls |-> <<>>, exc |-> None, existed |-> FALSE, result |-> [status |-> "NONE"]]

Terminal == {"returned", "raised"}

\* the collaborator calls of an invocation, in call order: <<name, succeeded>>
Called(r, name) == {i \in 1..Len(r.calls) : r.calls[i][1] = name}
NumCalls(r, name) == Cardinality(Called(r, name))
Clean(r) == \A i \in 1..Len(r.calls) : r.calls[i][2]

Outcome(r) == IF r.pc = "returned" THEN r.result.status ELSE "RAISED"

\* position of the first call of that name, 0 when there is none
FirstCall(r, name) ==
    IF Called(r, name) = {} THEN 0
    ELSE CHOOSE i \in Called(r, name) : \A j \in Called(r, name) : i <= j

NoSummary ==
    [file_hash |-> None, collection_name |-> None, force |-> FALSE, outcome |-> "NONE",
     fault |-> None, existed |-> FALSE, writes |-> 0, deletes |-> 0, delete_first |-> FALSE]

\* what is remembered of the previous invocation: all of it when no collaborator
\* call failed, its arguments when only the bulk write failed, nothing otherwise
Summary(r) ==
    IF Clean(r)
    THEN [file_hash |-> r.file_hash, collection_name |-> r.collection_name,
          force |-> r.force, outcome |-> Outcome(r), fault |-> None,
          existed |-> r.existed,
          writes |-> NumCalls(r, "from_documents"),
          deletes |-> NumCalls(r, "delete_vectors_by_doc_id"),
          delete_first |-> /\ FirstCall(r, "delete_vectors_by_doc_id") > 0
                           /\ FirstCall(r, "delete_vectors_by_doc_id") < FirstCall(r, "from_documents")]
    ELSE IF r.pc = "returned" /\ <<"from_documents", FALSE>> \in {r.calls[i] : i \in 1..Len(r.calls)}
    THEN [NoSummary EXCEPT !.file_hash = r.file_hash, !.collection_name = r.collection_name,
                           !.force = r.force, !.outcome = Outcome(r),
                           !.fault = "from_documents"]
    ELSE [NoSummary EXCEPT !.outcome = "FAULTY", !.fault = "other"]

\* line 256 raises: sha256_file is called before the try block, nothing was done yet
OnHashErrorHandled(p, r0) ==
    /\ inv' = [inv EXCEPT ![p] = [r0 EXCEPT !.pc = "except", !.exc = "io_error",
                                            !.calls = << <<"sha256_file", FALSE>> >>]]
    /\ UNCHANGED <<registry, pg_collection, pg_embedding>>

OnHashError(p, r0) ==
    /\ inv' = [inv EXCEPT ![p] = [r0 EXCEPT !.pc = "raised", !.exc = "io_error",
                                            !.calls = << <<"sha256_file", FALSE>> >>]]
    /\ UNCHANGED <<registry, pg_collection, pg_embedding>>

\* lines 255-265: file name, fingerprint, dedup gate
Start(p, file_path, category, report_date, source, collection_name, force) ==
    /\ inv[p].pc \in Terminal \cup {"idle"}
    /\ \A cid \in {str(0)} :
          force \/ Copies(pg_embedding, collection_name, sha256_file(file_path), cid) < MaxCopies
    /\ last' = IF inv[p].pc \in Terminal THEN Summary(inv[p]) ELSE last
    /\ LET r0 == [Idle EXCEPT !.file_path = file_path, !.category = category,
                              !.report_date = report_date, !.source = source,
                              !.collection_name = collection_name, !.force = force,
                              !.file_name = basename(file_path)]
       IN \/ \* open() or read() fails: the I/O error leaves the function
             OnHashError(p, r0)
          \/ LET r1 == [r0 EXCEPT !.file_hash = sha256_file(file_path),
                                  !.calls = << <<"sha256_file", TRUE>> >>,
                                  !.existed = registry[<<collection_name, sha256_file(file_path)>>].status
                                                = "SUCCESS"]
             IN /\ UNCHANGED <<registry, pg_collection, pg_embedding>>
                /\ IF force
                   THEN inv' = [inv EXCEPT ![p] = [r1 EXCEPT !.pc = "alias"]]
                   ELSE \/ \* the registry query raises outside the try block
                           inv' = [inv EXCEPT ![p] =
                                     [r1 EXCEPT !.pc = "raised", !.exc = "registry_error",
                                                !.calls = @ \o << <<"registry_exists", FALSE>> >>]]
                        \/ LET r2 == [r1 EXCEPT !.calls = @ \o << <<"registry_exists", TRUE>> >>]
                           IN IF registry_exists(registry, collection_name, r1.file_hash)
                              THEN inv' = [inv EXCEPT ![p] =
                                      [r2 EXCEPT !.pc = "returned",
                                                 !.result = [status |-> "SKIPPED",
                                                             file_name |-> r2.file_name,
                                                             file_hash |-> r2.file_hash,
                                                             reason |-> "already_ingested"]]]
                              ELSE inv' = [inv EXCEPT ![p] = [r2 EXCEPT !.pc = "alias"]]
    /\ UNCHANGED <<chunkVars, otherVars>>

\* line 267: await load_item_and_variety_aliases_async(); it catches its own errors
AliasLoad(p) ==
    /\ inv[p].pc = "alias"
    /\ inv' = [inv EXCEPT ![p].pc = IF inv[p].force THEN "delete" ELSE "load",
                          ![p].calls = @ \o << <<"load_aliases", TRUE>> >>]
    /\ UNCHANGED <<registry, pg_collection, pg_embedding, last, chunkVars, otherVars>>

\* no try block: the exception leaves the function
RaisePropagates(p, name, message) ==
    inv' = [inv EXCEPT ![p].pc = "raised", ![p].exc = message,
                       ![p].calls = @ \o << <<name, FALSE>> >>]

\* the handler reports a fixed text instead of str(e)
RaiseFixedMessage(p, name, message) ==
    inv' = [inv EXCEPT ![p].pc = "except", ![p].exc = "ingest_failed",
                       ![p].calls = @ \o << <<name, FALSE>> >>]

\* an exception inside the try block: control goes to the handler of line 340
Raise(p, name, message) ==
    inv' = [inv EXCEPT ![p].pc = "except", ![p].exc = message,
                       ![p].calls = @ \o << <<name, FALSE>> >>]

\* force is accepted but nothing is deleted before the re-ingest
ForcedDeleteSkipped(p) ==
    /\ inv[p].pc = "delete"
    /\ inv' = [inv EXCEPT ![p].pc = "load",
                          ![p].calls = @ \o << <<"delete_vectors_by_doc_id", TRUE>> >>]
    /\ UNCHANGED <<registry, pg_collection, pg_embedding, last, chunkVars, otherVars>>

\* lines 270-271
ForcedDelete(p) ==
    /\ inv[p].pc = "delete"
    /\ \/ /\ pg_embedding' = delete_vectors_by_doc_id(pg_embedding, pg_collection,
                                                      inv[p].collection_name, inv[p].file_hash)
          /\ inv' = [inv EXCEPT ![p].pc = "load",
                                ![p].calls = @ \o << <<"delete_vectors_by_doc_id", TRUE>> >>]
       \/ /\ Raise(p, "delete_vectors_by_doc_id", "delete_error")
          /\ UNCHANGED pg_embedding
    /\ UNCHANGED <<registry, pg_collection, last, chunkVars, otherVars>>

\* lines 274-275
LoadPages(p) ==
    /\ inv[p].pc = "load"
    /\ \/ inv' = [inv EXCEPT ![p].pc = "chunk",
                             ![p].pages = PyPDFLoader_load(inv[p].file_path),
                             ![p].calls = @ \o << <<"load", TRUE>> >>]
       \/ Raise(p, "load", "load_error")
    /\ UNCHANGED <<registry, pg_collection, pg_embedding, last, chunkVars, otherVars>>

\* the write is issued from inside the loop, after the first chunk
AfterTaggingWriteEarly(splits, tagged) ==
    IF splits = <<>> THEN "upsert_success"
    ELSE IF tagged = 0 THEN "tag" ELSE "write"

\* the branch of line 305 is missing: the write is issued even for an empty list
AfterTaggingAlwaysWrite(splits, tagged) ==
    IF tagged < Len(splits) THEN "tag" ELSE "write"

\* where the tagging loop of lines 290-303 and the branch of line 305 lead
AfterTagging(splits, tagged) ==
    IF tagged < Len(splits) THEN "tag"
    ELSE IF splits # <<>> THEN "write" ELSE "upsert_success"

\* line 281
BuildChunks(p) ==
    /\ inv[p].pc = "chunk"
    /\ \/ LET splits == build_chunks_from_pages(inv[p].pages, chunk_size, chunk_overlap)
          IN inv' = [inv EXCEPT ![p].splits = splits,
                                ![p].pc = AfterTagging(splits, 0),
                                ![p].calls = @ \o << <<"build_chunks_from_pages", TRUE>> >>]
       \/ Raise(p, "build_chunks_from_pages", "chunk_error")
    /\ UNCHANGED <<registry, pg_collection, pg_embedding, last, chunkVars, otherVars>>

\* lines 295-303: the metadata every chunk gets
TagMetadata(r, d) ==
    [d.metadata EXCEPT
        !.doc_category = IF r.category = None THEN "default_category" ELSE r.category,
        !.period = IF r.report_date = None THEN "unknown_date" ELSE r.report_date,
        !.source = r.source,
        !.file_name = r.file_name,
        !.file_hash = r.file_hash,
        !.doc_id = r.file_hash,
        !.tagged = TRUE]

\* one iteration of the loop of lines 290-303
TagChunk(p) ==
    /\ inv[p].pc = "tag"
    /\ LET i == inv[p].tagged + 1
       IN \/ inv' = [inv EXCEPT ![p].splits[i].metadata = TagMetadata(inv[p], inv[p].splits[i]),
                                ![p].tagged = i,
                                ![p].pc = AfterTagging(inv[p].splits, i),
                                ![p].calls = @ \o << <<"detect_tags", TRUE>> >>]
          \/ Raise(p, "detect_tags", "tag_error")
    /\ UNCHANGED <<registry, pg_collection, pg_embedding, last, chunkVars, otherVars>>

\* lines 305-313
BulkWrite(p) ==
    /\ inv[p].pc = "write"
    /\ \/ /\ pg_embedding' = from_documents(pg_embedding, inv[p].collection_name, inv[p].splits)
          /\ pg_collection' = pg_collection \cup {inv[p].collection_name}
          /\ inv' = [inv EXCEPT ![p].pc = "upsert_success",
                                ![p].calls = @ \o << <<"from_documents", TRUE>> >>]
       \/ \* embedding or insert fails; the collection row may already have been created
          /\ Raise(p, "from_documents", "write_error")
          /\ pg_collection' \in {pg_collection, pg_collection \cup {inv[p].collection_name}}
          /\ UNCHANGED pg_embedding
    /\ UNCHANGED <<registry, last, chunkVars, otherVars>>

\* lines 318-338
UpsertSuccess(p) ==
    /\ inv[p].pc = "upsert_success"
    /\ \/ /\ registry' = registry_upsert_success(registry, inv[p].collection_name,
                             inv[p].file_name, inv[p].file_hash, inv[p].category,
                             inv[p].report_date, inv[p].source)
          /\ inv' = [inv EXCEPT ![p].pc = "returned",
                                ![p].calls = @ \o << <<"registry_upsert_success", TRUE>> >>,
                                ![p].result = [status |-> "SUCCESS",
                                               file_name |-> inv[p].file_name,
                                               file_hash |-> inv[p].file_hash,
                                               pages |-> Len(inv[p].pages),
                                               chunks |-> Len(inv[p].splits),
                                               collection_name |-> inv[p].collection_name]]
       \/ /\ Raise(p, "registry_upsert_success", "registry_error")
          /\ UNCHANGED registry
    /\ UNCHANGED <<pg_collection, pg_embedding, last, chunkVars, otherVars>>

\* lines 340-355: the handler of "except Exception as e"
HandleException(p) ==
    /\ inv[p].pc = "except"
    /\ \/ /\ registry' = registry_upsert_failed(registry, inv[p].collection_name,
                             inv[p].file_name, inv[p].file_hash, inv[p].category,
                             inv[p].report_date, inv[p].source, inv[p].exc)
          /\ inv' = [inv EXCEPT ![p].pc = "returned",
                                ![p].calls = @ \o << <<"registry_upsert_failed", TRUE>> >>,
                                ![p].result = [status |-> "FAILED",
                                               file_name |-> inv[p].file_name,
                                               file_hash |-> inv[p].file_hash,
                                               error |-> inv[p].exc]]
       \/ \* the upsert in the handler raises: that error leaves the function
          /\ inv' = [inv EXCEPT ![p].pc = "raised", ![p].exc = "registry_error",
                                ![p].calls = @ \o << <<"registry_upsert_failed", FALSE>> >>]
          /\ UNCHANGED registry
    /\ UNCHANGED <<pg_collection, pg_embedding, last, chunkVars, otherVars>>

Step(p) ==
    \/ \E f \in Files, cat \in Categories, rd \in ReportDates, src \in Sources,
          c \in Collections, force \in BOOLEAN :
          Start(p, f, cat, rd, src, c, force)
    \/ AliasLoad(p)
    \/ ForcedDelete(p)
    \/ LoadPages(p)
    \/ BuildChunks(p)
    \/ TagChunk(p)
    \/ BulkWrite(p)
    \/ UpsertSuccess(p)
    \/ HandleException(p)

\* value of a variable the specification at hand does not use
Unused == <<>>

InitIngest ==
    /\ registry = [k \in Keys |-> NoRow]
    /\ pg_collection = {}
    /\ pg_embedding = EmptyBag
    /\ inv = [p \in Procs |-> Idle]
    /\ last = NoSummary

Init ==
    /\ InitIngest
    /\ raw_documents = <<>>
    /\ chunks = <<>>
    /\ cstate = "unused"
    /\ tx = Unused /\ applied = Unused /\ op = Unused
    /\ tag_text = Unused /\ tags = Unused
    /\ head_text = Unused /\ heading = Unused
    /\ env = Unused /\ loaded = Unused
    /\ batch = Unused /\ filter_args = Unused /\ filter_out = Unused

\* one caller at a time: each invocation runs to its end before the next starts
Next == (\E p \in SeqProcs : Step(p)) /\ UNCHANGED batch

Spec == Init /\ [][Next]_vars

-----------------------------------------------------------------------------
(* build_chunks_from_pages as a function of its input *)

Texts == UNION {[1..n -> LineKinds] : n \in 0..MaxLines}
PageLists == UNION {[1..n -> Texts] : n \in 0..MaxPages}

InitChunk ==
    /\ InitIngest
    /\ raw_documents \in {PageDocs(c) : c \in PageLists}
    /\ chunks = <<>>
    /\ cstate = "input"
    /\ tx = Unused /\ applied = Unused /\ op = Unused
    /\ tag_text = Unused /\ tags = Unused
    /\ head_text = Unused /\ heading = Unused
    /\ env = Unused /\ loaded = Unused
    /\ batch = Unused /\ filter_args = Unused /\ filter_out = Unused

Build ==
    /\ cstate = "input"
    /\ chunks' = build_chunks_from_pages(raw_documents, chunk_size, chunk_overlap)
    /\ cstate' = "built"
    /\ UNCHANGED <<raw_documents, ingestVars, otherVars, batch>>

NextChunk == Build

SpecChunk == InitChunk /\ [][NextChunk]_vars

-----------------------------------------------------------------------------
(* Properties of the ingestion orchestrator *)

CallSet(r) == {r.calls[i] : i \in 1..Len(r.calls)}
Failed(r, name) == <<name, FALSE>> \in CallSet(r)
Succeeded(r, name) == <<name, TRUE>> \in CallSet(r)
Ended(p) == inv[p].pc \in Terminal
KeyOf(r) == <<r.collection_name, r.file_hash>>

\* the chunker's output for a file
FileChunks(file_path) ==
    build_chunks_from_pages(PyPDFLoader_load(file_path), chunk_size, chunk_overlap)

FileOfHash(h) == CHOOSE f \in Files : sha256_file(f) = h

\* C1: the vector store never holds more than one copy of a chunk of a document,
\* whatever mix of force flags and collaborator failures the invocations had.
C1_NeverDoubleStored ==
    \A c \in Collections, h \in Hashes :
        \A r \in DocRows(pg_embedding, c, h) :
            Copies(pg_embedding, c, h, r.cmetadata.chunk_id) <= 1

\* the pair (previous invocation, invocation of p): same file and collection,
\* no collaborator call failed in either
SamePair(p) ==
    /\ Ended(p)
    /\ Clean(inv[p])
    /\ last.fault = None
    /\ last.outcome # "NONE"
    /\ KeyOf(inv[p]) = <<last.collection_name, last.file_hash>>

NonForcedPair(p) == SamePair(p) /\ ~last.force /\ ~inv[p].force /\ ~last.existed

\* C2 as stated: two successive unforced ingests of a file that had no SUCCESS row
\* return SUCCESS then SKIPPED, with exactly one bulk write between them.
C2_WriteExactlyOnce ==
    \A p \in Procs :
        NonForcedPair(p) =>
            /\ last.outcome = "SUCCESS"
            /\ Outcome(inv[p]) = "SKIPPED"
            /\ last.writes + NumCalls(inv[p], "from_documents") = 1

\* C2 amended: SUCCESS then SKIPPED; the bulk write is called exactly once across
\* both when the file yields at least one chunk, and never when it yields none.
C2_Idempotent ==
    \A p \in Procs :
        NonForcedPair(p) =>
            /\ last.outcome = "SUCCESS"
            /\ Outcome(inv[p]) = "SKIPPED"
            /\ last.writes + NumCalls(inv[p], "from_documents") =
                  (IF FileChunks(inv[p].file_path) # <<>> THEN 1 ELSE 0)

C2_Witness ==
    \E p \in Procs :
        /\ NonForcedPair(p)
        /\ Outcome(inv[p]) = "SKIPPED"
        /\ last.writes = 1

ForcedPair(p) ==
    /\ SamePair(p) /\ last.force /\ inv[p].force
    /\ last.outcome = "SUCCESS" /\ Outcome(inv[p]) = "SUCCESS"
    /\ FileChunks(inv[p].file_path) # <<>>

\* C3: when a file with at least one chunk is ingested twice in a row with force,
\* each invocation calls delete_vectors_by_doc_id exactly once and before its bulk
\* write, and afterwards the stored vectors of the document number exactly the
\* chunks of one run of the chunker.
C3_ForcedReplacement ==
    \A p \in Procs :
        ForcedPair(p) =>
            /\ last.deletes = 1 /\ last.delete_first
            /\ NumCalls(inv[p], "delete_vectors_by_doc_id") = 1
            /\ FirstCall(inv[p], "delete_vectors_by_doc_id") < FirstCall(inv[p], "from_documents")
            /\ VectorCount(pg_embedding, inv[p].collection_name, inv[p].file_hash)
                  = Len(FileChunks(inv[p].file_path))

C3_Witness ==
    \E p \in Procs :
        /\ ForcedPair(p)
        /\ VectorCount(pg_embedding, inv[p].collection_name, inv[p].file_hash) >= 2

\* C4 as stated: an invocation whose bulk write raised ends with a FAILED row.
C4_FailedRowAlways ==
    \A p \in Procs :
        (Ended(p) /\ Failed(inv[p], "from_documents")) =>
            registry[KeyOf(inv[p])].status = "FAILED"

\* C4 amended: when the bulk write raises and the registry_upsert_failed of the
\* handler succeeds, the row is FAILED with the write's message, also over an
\* earlier SUCCESS row; the next unforced ingest of the file whose registry check
\* answers is not SKIPPED and goes on to processing.
C4_FailureIsolation ==
    \A p \in Procs :
        /\ (Ended(p) /\ Failed(inv[p], "from_documents")
                     /\ Succeeded(inv[p], "registry_upsert_failed")) =>
              /\ registry[KeyOf(inv[p])].status = "FAILED"
              /\ registry[KeyOf(inv[p])].error = "write_error"
        /\ (/\ last.fault = "from_documents"
            /\ KeyOf(inv[p]) = <<last.collection_name, last.file_hash>>
            /\ ~inv[p].force
            /\ Succeeded(inv[p], "registry_exists")) =>
              /\ inv[p].result.status # "SKIPPED"
              /\ inv[p].pc = "alias" \/ Called(inv[p], "load_aliases") # {}

C4_Witness ==
    \E p \in Procs :
        /\ last.fault = "from_documents"
        /\ last.force
        /\ KeyOf(inv[p]) = <<last.collection_name, last.file_hash>>
        /\ ~inv[p].force
        /\ inv[p].pc = "load"
        /\ registry[KeyOf(inv[p])].status = "FAILED"

\* the step in which p's invocation begins
StartStep(p) == inv[p].pc \in Terminal \cup {"idle"} /\ inv'[p] # inv[p]

\* C5: an invocation is SKIPPED exactly when force is false and the registry holds
\* a SUCCESS row for (collection, fingerprint) when it is checked; a SKIPPED
\* invocation made no call but the hash and the check and changed neither store.
C5_SkippedIff ==
    [][\A p \in Procs :
          /\ StartStep(p) =>
                /\ (inv'[p].result.status = "SKIPPED") <=>
                      /\ ~inv'[p].force
                      /\ Succeeded(inv'[p], "registry_exists")
                      /\ registry[KeyOf(inv'[p])].status = "SUCCESS"
                /\ (inv'[p].result.status = "SKIPPED") =>
                      /\ inv'[p].pc = "returned"
                      /\ inv'[p].calls = << <<"sha256_file", TRUE>>, <<"registry_exists", TRUE>> >>
                      /\ UNCHANGED <<registry, pg_collection, pg_embedding>>
          /\ ~StartStep(p) =>
                (inv'[p].result.status = "SKIPPED" => inv[p].result.status = "SKIPPED")
      ]_vars

C5_Witness ==
    \E p \in Procs :
        /\ inv[p].result.status = "SKIPPED"
        /\ VectorCount(pg_embedding, inv[p].collection_name, inv[p].file_hash) > 0

\* C6: within one invocation the bulk write is called at most once, only after
\* the chunks are built and every one of them is tagged and has its metadata, with
\* the whole chunk list; after a failure of loading, chunking or tagging it is
\* not called at all.
C6_SingleCompleteWrite ==
    \A p \in Procs :
        LET r == inv[p] IN
        /\ NumCalls(r, "from_documents") <= 1
        /\ (r.pc = "write" \/ NumCalls(r, "from_documents") = 1) =>
              /\ Succeeded(r, "load") /\ Succeeded(r, "build_chunks_from_pages")
              /\ Len(r.splits) = Len(FileChunks(r.file_path))
              /\ r.tagged = Len(r.splits)
              /\ \A i \in 1..Len(r.splits) :
                    /\ r.splits[i].metadata.tagged
                    /\ r.splits[i].metadata.doc_id = r.file_hash
                    /\ r.splits[i].metadata.chunk_id = str(i - 1)
        /\ Succeeded(r, "from_documents") =>
              \A i \in 1..Len(FileChunks(r.file_path)) :
                  Copies(pg_embedding, r.collection_name, r.file_hash, str(i - 1)) >= 1
        /\ (Failed(r, "load") \/ Failed(r, "build_chunks_from_pages") \/ Failed(r, "detect_tags")) =>
              NumCalls(r, "from_documents") = 0

C6_Witness ==
    \E p \in Procs :
        /\ Succeeded(inv[p], "from_documents")
        /\ Len(inv[p].splits) >= 2

\* the calls made inside the try block whose failure the claim names
TryCalls ==
    {"delete_vectors_by_doc_id", "load", "build_chunks_from_pages", "detect_tags", "from_documents"}

\* str(e) of the exception each of them raises
MessageOf(name) ==
    CASE name = "delete_vectors_by_doc_id" -> "delete_error"
      [] name = "load" -> "load_error"
      [] name = "build_chunks_from_pages" -> "chunk_error"
      [] name = "detect_tags" -> "tag_error"
      [] name = "from_documents" -> "write_error"

\* C7 as stated: after an exception of the try block the function returns FAILED
\* with the exception's message.
C7_AlwaysReturnsFailed ==
    \A p \in Procs : \A n \in TryCalls :
        (Ended(p) /\ Failed(inv[p], n)) =>
            /\ inv[p].pc = "returned"
            /\ inv[p].result.status = "FAILED"
            /\ inv[p].result.error = MessageOf(n)

\* C7 amended: the exception is caught and registry_upsert_failed is called once
\* with its message; when that upsert succeeds the function returns FAILED with the
\* message in 'error', and when the upsert itself raises, that error leaves the
\* function and no row is written.
C7_CaughtAndRecorded ==
    \A p \in Procs : \A n \in TryCalls :
        Failed(inv[p], n) =>
            /\ inv[p].pc \in Terminal \cup {"except"}
            /\ inv[p].pc = "except" => inv[p].exc = MessageOf(n)
            /\ Ended(p) =>
                  /\ NumCalls(inv[p], "registry_upsert_failed") = 1
                  /\ Succeeded(inv[p], "registry_upsert_failed") =>
                        /\ inv[p].pc = "returned"
                        /\ inv[p].result.status = "FAILED"
                        /\ inv[p].result.error = MessageOf(n)
                        /\ registry[KeyOf(inv[p])].status = "FAILED"
                        /\ registry[KeyOf(inv[p])].error = MessageOf(n)
                  /\ Failed(inv[p], "registry_upsert_failed") =>
                        /\ inv[p].pc = "raised"
                        /\ inv[p].exc = "registry_error"

C7_Witness ==
    \E p \in Procs :
        /\ Failed(inv[p], "detect_tags")
        /\ inv[p].pc = "returned"
        /\ inv[p].result.status = "FAILED"

\* C8 as stated: with the fingerprint computed, the invocation ends returned, in
\* SKIPPED, SUCCESS or FAILED.
C8_NeverRaises ==
    \A p \in Procs :
        (Ended(p) /\ Succeeded(inv[p], "sha256_file")) =>
            /\ inv[p].pc = "returned"
            /\ inv[p].result.status \in {"SKIPPED", "SUCCESS", "FAILED"}

\* C8 amended: with the fingerprint computed, an invocation that is not over is at
\* one of its steps, and it ends returned in exactly one of SKIPPED,
\* SUCCESS, FAILED unless registry_exists or the handler's registry_upsert_failed
\* raised: exactly then the error leaves the function.
C8_TerminalStates ==
    \A p \in Procs :
        Succeeded(inv[p], "sha256_file") =>
            /\ ~Ended(p) =>
                  /\ inv[p].pc \in {"alias", "delete", "load", "chunk", "tag", "write",
                                    "upsert_success", "except"}
                  /\ inv[p].pc = "tag" => inv[p].tagged < Len(inv[p].splits)
            /\ inv[p].pc = "returned" =>
                  inv[p].result.status \in {"SKIPPED", "SUCCESS", "FAILED"}
            /\ inv[p].pc # "returned" => inv[p].result.status = "NONE"
            /\ inv[p].pc = "raised" <=>
                  Failed(inv[p], "registry_exists") \/ Failed(inv[p], "registry_upsert_failed")

C8_Witness ==
    \E p \in Procs :
        /\ inv[p].pc = "returned"
        /\ inv[p].result.status = "FAILED"
        /\ Failed(inv[p], "registry_upsert_success")

\* C9: when hashing the file fails the error leaves ingest_pdf_report at once: no
\* registry call and no vector store call was made, and both are as before.
C9_HashFailure ==
    [][\A p \in Procs :
          /\ (StartStep(p) /\ Failed(inv'[p], "sha256_file")) =>
                /\ inv'[p].pc = "raised"
                /\ inv'[p].calls = << <<"sha256_file", FALSE>> >>
                /\ UNCHANGED <<registry, pg_collection, pg_embedding>>
          /\ (~StartStep(p) /\ Failed(inv[p], "sha256_file")) => inv'[p] = inv[p]
      ]_vars

C9_Witness ==
    \E p \in Procs :
        /\ Failed(inv[p], "sha256_file")
        /\ inv[p].pc = "raised"
        /\ \E k \in Keys : registry[k].status = "SUCCESS"
        /\ pg_embedding # EmptyBag

-----------------------------------------------------------------------------
(* Properties of the chunker *)

DigitValue(ch) == CHOOSE d \in 0..9 : Digit(d) = ch

\* int(s) of a decimal string
RECURSIVE ParseInt(_)
ParseInt(s) ==
    IF Len(s) = 1 THEN DigitValue(s[1])
    ELSE 10 * ParseInt(SubSeq(s, 1, Len(s) - 1)) + DigitValue(s[Len(s)])

\* page, then section of the page, then position in the section
OriginBefore(a, b) ==
    \/ a[1] < b[1]
    \/ a[1] = b[1] /\ a[2] < b[2]
    \/ a[1] = b[1] /\ a[2] = b[2] /\ a[3] < b[3]

\* C10: the chunk_id values of the N chunks of build_chunks_from_pages are the
\* decimal numerals of 0..N-1, each once, in the order page, section, position.
C10_ChunkOrdinals ==
    cstate = "built" =>
        LET N == Len(chunks) IN
        /\ \A i \in 1..N :
              /\ chunks[i].metadata.chunk_id # <<>>
              /\ \A k \in 1..Len(chunks[i].metadata.chunk_id) :
                    \E d \in 0..9 : chunks[i].metadata.chunk_id[k] = Digit(d)
        /\ \A i \in 1..N : ParseInt(chunks[i].metadata.chunk_id) = i - 1
        /\ {ParseInt(chunks[i].metadata.chunk_id) : i \in 1..N} = 0..(N - 1)
        /\ \A i, j \in 1..N : i < j => OriginBefore(chunks[i].origin, chunks[j].origin)

C10_Witness ==
    /\ cstate = "built"
    /\ Len(chunks) >= 10
    /\ chunks[1].origin[1] # chunks[Len(chunks)].origin[1]

-----------------------------------------------------------------------------
(* Properties of empty documents *)

\* every extracted page is blank, or there is no page
AllBlank(pages) ==
    \A i \in 1..Len(pages) : Strip(pages[i].page_content) = <<>>

BlankLoaded(r) == Succeeded(r, "load") /\ AllBlank(r.pages)

-----------------------------------------------------------------------------
(* The registry under direct, concurrent upserts *)

RegCollections == {DEFAULT_COLLECTION, "price_reports"}
\* a key, one with another fingerprint and one with another collection
RegKeys == {k \in RegCollections \X Hashes : k[1] = DEFAULT_COLLECTION \/ k[2] = "sha_a"}

\* the descriptive arguments of an upsert; the two values differ in every field
Metas ==
    {[file_name |-> "a.pdf", category |-> "seed_category", period |-> None,
      source |-> "System_Seed"],
     [file_name |-> "copy.pdf", category |-> "market", period |-> "2026-01",
      source |-> "upload"]}

NoStmt == [name |-> "none"]

Stmt(name, k, m, error) ==
    [name |-> name, collection_name |-> k[1], file_hash |-> k[2],
     file_name |-> m.file_name, category |-> m.category, period |-> m.period,
     source |-> m.source, error |-> error, overlapped |-> FALSE, before |-> "ABSENT"]

\* str(e) of the failure; it is "" for an exception raised without arguments
ErrorOf(m) == IF m.file_name = "a.pdf" THEN "" ELSE "write_error"

Statements ==
    {Stmt("registry_upsert_success", k, m, None) : k \in RegKeys, m \in Metas}
    \cup {Stmt("registry_upsert_failed", k, m, ErrorOf(m)) : k \in RegKeys, m \in Metas}

InFlight(p) == tx[p].name # "none"

\* conn.execute of lines 107-127 and 142-162: the INSERT ... ON CONFLICT statement
Execute(reg, s) ==
    IF s.name = "registry_upsert_success"
    THEN registry_upsert_success(reg, s.collection_name, s.file_name, s.file_hash,
                                 s.category, s.period, s.source)
    ELSE registry_upsert_failed(reg, s.collection_name, s.file_name, s.file_hash,
                                s.category, s.period, s.source, s.error)

\* a caller enters an upsert: the statement is on its way to the database
Send(p, s) ==
    /\ ~InFlight(p)
    /\ LET racing == {q \in Procs \ {p} : /\ InFlight(q)
                                             /\ tx[q].collection_name = s.collection_name
                                             /\ tx[q].file_hash = s.file_hash}
       IN tx' = [q \in Procs |->
                   IF q = p THEN [s EXCEPT !.overlapped = racing # {}]
                   ELSE IF q \in racing THEN [tx[q] EXCEPT !.overlapped = TRUE]
                   ELSE tx[q]]
    /\ UNCHANGED <<registry, applied>>

\* the database applies the statement as one write and the caller commits;
\* applied remembers the statement and the status the row had before it
Apply(p) ==
    /\ InFlight(p)
    /\ LET k == <<tx[p].collection_name, tx[p].file_hash>>
       IN /\ registry' = Execute(registry, tx[p])
          /\ applied' = [applied EXCEPT ![k] = [tx[p] EXCEPT !.before = registry[k].status]]
    /\ tx' = [tx EXCEPT ![p] = NoStmt]

InitReg ==
    /\ registry = [k \in RegKeys |-> NoRow]
    /\ tx = [p \in Procs |-> NoStmt]
    /\ applied = [k \in RegKeys |-> NoStmt]
    /\ pg_collection = {} /\ pg_embedding = EmptyBag
    /\ inv = [p \in Procs |-> Idle] /\ last = NoSummary
    /\ raw_documents = <<>> /\ chunks = <<>> /\ cstate = "unused"
    /\ op = Unused
    /\ tag_text = Unused /\ tags = Unused
    /\ head_text = Unused /\ heading = Unused
    /\ env = Unused /\ loaded = Unused
    /\ batch = Unused /\ filter_args = Unused /\ filter_out = Unused

RegStep(callers, keys) ==
    /\ \E p \in callers :
          \/ \E s \in Statements : <<s.collection_name, s.file_hash>> \in keys /\ Send(p, s)
          \/ Apply(p)
    /\ UNCHANGED <<pg_collection, pg_embedding, inv, last, chunkVars, op, tag_text, tags,
                   head_text, heading, env, loaded,
                   batch, filter_args, filter_out>>

\* one caller, every key
NextReg == RegStep(SeqProcs, RegKeys)

SpecReg == InitReg /\ [][NextReg]_vars

\* two callers racing on one key
NextRegRace == RegStep(Procs, {<<DEFAULT_COLLECTION, "sha_a">>})

SpecRegRace == InitReg /\ [][NextRegRace]_vars

-----------------------------------------------------------------------------
(* Properties of the registry *)

IsSuccess(s) == s.name = "registry_upsert_success"
IsFailed(s) == s.name = "registry_upsert_failed"

\* C12: registry_exists holds for a key exactly when the upsert applied last for
\* that key was registry_upsert_success; a FAILED row, no row, and rows of other
\* collections or fingerprints never make it hold.
C12_ExistsIffLatestSuccess ==
    \A k \in RegKeys :
        registry_exists(registry, k[1], k[2]) <=> IsSuccess(applied[k])

C12_Witness ==
    /\ IsFailed(applied[<<DEFAULT_COLLECTION, "sha_a">>])
    /\ applied[<<DEFAULT_COLLECTION, "sha_a">>].before = "SUCCESS"
    /\ IsSuccess(applied[<<DEFAULT_COLLECTION, "sha_b">>])
    /\ IsSuccess(applied[<<"price_reports", "sha_a">>])
    /\ ~registry_exists(registry, DEFAULT_COLLECTION, "sha_a")

RowKeys(reg) == {k \in DOMAIN reg : reg[k].status # "ABSENT"}

\* C13: every upsert that is applied creates the row of its key when there is
\* none and overwrites it otherwise, whatever its status was, and leaves the rows
\* of all other keys as they were; the registry holds one row per key at most.
C13_InsertOrOverwrite ==
    [][\A p \in Procs :
          (InFlight(p) /\ tx'[p] = NoStmt) =>
              LET k == <<tx[p].collection_name, tx[p].file_hash>>
              IN /\ RowKeys(registry') = RowKeys(registry) \cup {k}
                 /\ registry'[k].status = (IF IsSuccess(tx[p]) THEN "SUCCESS" ELSE "FAILED")
                 /\ registry'[k].file_name = tx[p].file_name
                 /\ \A k2 \in RegKeys \ {k} : registry'[k2] = registry[k2]]_vars

C13_Witness ==
    \E k1, k2 \in RegKeys :
        /\ IsSuccess(applied[k1]) /\ applied[k1].before = "FAILED"
        /\ registry[k1].status = "SUCCESS"
        /\ IsFailed(applied[k2]) /\ applied[k2].before = "SUCCESS"
        /\ registry[k2].status = "FAILED"

\* the row an upsert statement writes
RowOf(s) ==
    [file_name |-> s.file_name, category |-> s.category, period |-> s.period,
     source |-> s.source,
     status |-> IF IsSuccess(s) THEN "SUCCESS" ELSE "FAILED",
     error |-> IF IsSuccess(s) THEN None ELSE s.error]

\* C14: with upserts of two callers in flight on the same key, the row is at all
\* times entirely the row of the upsert applied last: status, error, file_name,
\* category, period and source come from that one statement.
C14_LastWriteWins ==
    \A k \in RegKeys :
        IF applied[k].name = "none" THEN registry[k] = NoRow
        ELSE registry[k] = RowOf(applied[k])

C14_Witness ==
    \E k \in RegKeys :
        /\ \A p \in Procs : ~InFlight(p)
        /\ applied[k].name # "none"
        /\ applied[k].overlapped
        /\ applied[k].before \notin {"ABSENT", registry[k].status}

\* C15: every row has status SUCCESS or FAILED, and its error is set exactly when
\* the status is FAILED.
C15_ErrorIffFailed ==
    \A k \in RowKeys(registry) :
        /\ registry[k].status \in {"SUCCESS", "FAILED"}
        /\ (registry[k].error # None) <=> (registry[k].status = "FAILED")

C15_Witness ==
    \E k1, k2 \in RegKeys :
        /\ IsSuccess(applied[k1]) /\ applied[k1].before = "FAILED"
        /\ registry[k1].error = None
        /\ registry[k2].status = "FAILED" /\ registry[k2].error = ""

-----------------------------------------------------------------------------
(* The vector store under direct writes and deletes *)

\* two files that yield chunks
StoreFiles == {"seeds/a.pdf", "seeds/c.pdf"}

\* the doc_ids a delete is asked for: those of the files and one nothing is stored for
DocIds == {sha256_file(f) : f \in StoreFiles} \cup {"sha_b"}

\* the documents ingest_pdf_report writes for a file: its chunks with their metadata
StoreDocs(f) ==
    LET r == [Idle EXCEPT !.file_name = basename(f), !.file_hash = sha256_file(f),
                          !.category = "seed_category", !.source = "System_Seed"]
        cs == build_chunks_from_pages(PyPDFLoader_load(f), chunk_size, chunk_overlap)
    IN [i \in 1..Len(cs) |-> [cs[i] EXCEPT !.metadata = TagMetadata(r, cs[i])]]

NoOp == [name |-> "none", collection_name |-> None, doc_id |-> None, removed |-> 0, tick |-> 0]

\* lines 306-313: the chunks of a file are written to a collection
StoreWrite(c, f) ==
    /\ VectorCount(pg_embedding, c, sha256_file(f)) < MaxCopies * Len(StoreDocs(f))
    /\ pg_embedding' = from_documents(pg_embedding, c, StoreDocs(f))
    /\ pg_collection' = pg_collection \cup {c}
    /\ op' = [name |-> "from_documents", collection_name |-> c, doc_id |-> sha256_file(f),
              removed |-> 0, tick |-> 1 - op.tick]

\* lines 270-271: the vectors of a doc_id are deleted from a collection
StoreDelete(c, d) ==
    /\ pg_embedding' = delete_vectors_by_doc_id(pg_embedding, pg_collection, c, d)
    /\ op' = [name |-> "delete_vectors_by_doc_id", collection_name |-> c, doc_id |-> d,
              removed |-> VectorCount(pg_embedding, c, d), tick |-> 1 - op.tick]
    /\ UNCHANGED pg_collection

InitStore ==
    /\ pg_collection = {} /\ pg_embedding = EmptyBag
    /\ op = NoOp
    /\ registry = [k \in Keys |-> NoRow]
    /\ inv = [p \in Procs |-> Idle] /\ last = NoSummary
    /\ raw_documents = <<>> /\ chunks = <<>> /\ cstate = "unused"
    /\ tx = Unused /\ applied = Unused
    /\ tag_text = Unused /\ tags = Unused
    /\ head_text = Unused /\ heading = Unused
    /\ env = Unused /\ loaded = Unused
    /\ batch = Unused /\ filter_args = Unused /\ filter_out = Unused

NextStore ==
    /\ \E c \in RegCollections :
          \/ \E f \in StoreFiles : StoreWrite(c, f)
          \/ \E d \in DocIds : StoreDelete(c, d)
    /\ UNCHANGED <<registry, inv, last, chunkVars, tx, applied, tag_text, tags,
                   head_text, heading, env, loaded,
                   batch, filter_args, filter_out>>

SpecStore == InitStore /\ [][NextStore]_vars

-----------------------------------------------------------------------------
(* Properties of the vector store *)

\* number of stored copies of a row
Count(emb, r) == IF r \in DOMAIN emb THEN emb[r] ELSE 0

DeleteStep == op' # op /\ op'.name = "delete_vectors_by_doc_id"

\* C16: a delete removes every vector of the collection whose doc_id is the
\* argument and leaves every other vector, of another doc_id or of another
\* collection, stored as many times as before; it changes nothing when the
\* collection does not exist or holds no such vector.
C16_DeleteFrame ==
    [][DeleteStep =>
         /\ \A r \in DOMAIN pg_embedding \cup DOMAIN pg_embedding' :
               Count(pg_embedding', r) =
                  IF r.collection = op'.collection_name /\ r.cmetadata.doc_id = op'.doc_id
                  THEN 0 ELSE Count(pg_embedding, r)
         /\ (op'.collection_name \notin pg_collection \/ op'.removed = 0)
               => pg_embedding' = pg_embedding
         /\ pg_collection' = pg_collection]_vars

C16_Witness ==
    /\ op.name = "delete_vectors_by_doc_id"
    /\ op.removed > 0
    /\ \E d \in DocIds \ {op.doc_id} : VectorCount(pg_embedding, op.collection_name, d) > 0
    /\ \E c \in RegCollections \ {op.collection_name} :
          VectorCount(pg_embedding, c, op.doc_id) > 0
    /\ VectorCount(pg_embedding, op.collection_name, op.doc_id) = 0

-----------------------------------------------------------------------------
(* _detect_tags of app/rag/tagger.py *)

\* Text is a sequence of characters: the syllables "sa" "gwa" "hu" "ji", another
\* letter "x", a blank " ", a comma, and an opening and a closing parenthesis.
TagChars == {"sa", "gwa", "hu", "ji", "x", " ", ",", "(", ")"}

\* _normalize: str.strip()
normalize(t) ==
    LET solid == {i \in 1..Len(t) : t[i] # " "}
    IN IF solid = {} THEN <<>>
       ELSE SubSeq(t, CHOOSE i \in solid : \A j \in solid : i <= j,
                      CHOOSE i \in solid : \A j \in solid : i >= j)

\* re.search of the pattern of line 133: the key with start of string or one of
\* the left delimiters before it and end of string or a right delimiter after it
re_search(t, key) ==
    LET left == {" ", ",", "("}
        right == {" ", ",", ")"}
    IN \E i \in 0..(Len(t) - Len(key)) :
          /\ SubSeq(t, i + 1, i + Len(key)) = key
          /\ i = 0 \/ t[i] \in left
          /\ i + Len(key) = Len(t) \/ t[i + Len(key) + 1] \in right

\* lines 132-141: the pattern search and then the test "key in t"
KeyFound(t, key) ==
    \/ re_search(t, key)
    \/ \E i \in 0..(Len(t) - Len(key)) : SubSeq(t, i + 1, i + Len(key)) = key

\* aliases is the dict as a sequence of <<canonical, keys>> in insertion order
detect_tags(t, aliases) ==
    LET n == Len(aliases)
        name(i) == normalize(aliases[i][1])
        found(i) == \E j \in 1..Len(aliases[i][2]) :
                       LET key == normalize(aliases[i][2][j])
                       IN key # <<>> /\ KeyFound(t, key)
        hit(i) == name(i) # <<>> /\ found(i)
        first(i) == hit(i) /\ ~\E j \in 1..(i - 1) : hit(j) /\ name(j) = name(i)
        idx == SelectSeq([i \in 1..n |-> i], first)
    IN [k \in 1..Len(idx) |-> name(idx[k])]

\* the alias table {"sa gwa": ["sa gwa", "hu ji"]} and an entry with a blank name
AliasTable ==
    << << <<"sa", "gwa">>, << <<"sa", "gwa">>, <<" ", "hu", "ji">> >> >>,
       << <<" ">>, << <<"x">> >> >> >>

InitTag ==
    /\ tag_text \in UNION {[1..n -> TagChars] : n \in 0..MaxTextLen}
    /\ tags = <<>>
    /\ cstate = "input"
    /\ InitIngest
    /\ raw_documents = <<>> /\ chunks = <<>>
    /\ tx = Unused /\ applied = Unused /\ op = Unused
    /\ head_text = Unused /\ heading = Unused
    /\ env = Unused /\ loaded = Unused
    /\ batch = Unused /\ filter_args = Unused /\ filter_out = Unused

Detect ==
    /\ cstate = "input"
    /\ tags' = detect_tags(tag_text, AliasTable)
    /\ cstate' = "built"
    /\ UNCHANGED <<ingestVars, raw_documents, chunks, tx, applied, op, tag_text,
                   head_text, heading, env, loaded,
                   batch, filter_args, filter_out>>

NextTag == Detect

SpecTag == InitTag /\ [][NextTag]_vars

-----------------------------------------------------------------------------
(* Properties of the tagger *)

\* whitespace, punctuation and bracket characters
Delimiters == {" ", ",", "(", ")"}

\* the key occurs with start or end of string or a delimiter on both sides
OccursBounded(t, key) ==
    \E i \in 0..(Len(t) - Len(key)) :
        /\ SubSeq(t, i + 1, i + Len(key)) = key
        /\ i = 0 \/ t[i] \in Delimiters
        /\ i + Len(key) = Len(t) \/ t[i + Len(key) + 1] \in Delimiters

\* C17: a canonical name is tagged only if one of its aliases occurs in the text
\* with start or end of string or a whitespace, punctuation or bracket character
\* on both sides; an alias embedded in a longer token does not tag.
C17_BoundaryAware ==
    cstate = "built" =>
        (<<"sa", "gwa">> \in {tags[i] : i \in 1..Len(tags)} =>
            \/ OccursBounded(tag_text, <<"sa", "gwa">>)
            \/ OccursBounded(tag_text, <<"hu", "ji">>))

-----------------------------------------------------------------------------
(* _HEADING_RE of app/rag/ingest.py, character by character *)

\* a digit, a full stop, a blank, a line break, a Roman numeral letter, a marker
\* glyph, the two square brackets and any other visible character
HeadChars == {"1", ".", " ", "nl", "I", "g", "[", "]", "x"}

\* \s, and a run of it from i to j
IsSpace(c) == c \in {" ", "nl"}
AllSpace(t, i, j) == \A k \in i..j : IsSpace(t[k])

\* the positions at which one of the alternatives of the group, started at a, can end
PrefixEnds(t, a) ==
    LET numbered(c) == {b \in (a + 3)..(Len(t) + 1) :
                          \E d \in (a + 1)..(b - 2) :
                              /\ \A k \in a..(d - 1) : t[k] = c
                              /\ t[d] = "."
                              /\ AllSpace(t, d + 1, b - 1)}
        glyph == {b \in (a + 2)..(Len(t) + 1) : t[a] = "g" /\ AllSpace(t, a + 1, b - 1)}
        label == {b \in (a + 3)..(Len(t) + 1) :
                     /\ t[a] = "[" /\ t[b - 1] = "]"
                     /\ \E i \in (a + 1)..(b - 2) : \E j \in i..(b - 2) :
                           /\ AllSpace(t, a + 1, i - 1)
                           /\ \A k \in i..j : t[k] # "nl"
                           /\ AllSpace(t, j + 1, b - 2)}
    IN numbered("1") \cup numbered("I") \cup glyph \cup label

\* ^ under re.MULTILINE
LineStart(t, s) == s = 1 \/ t[s - 1] = "nl"

\* the positions of the \S of a match that starts at s
MatchEnds(t, s) ==
    {b \in 1..Len(t) : /\ ~IsSpace(t[b])
                       /\ \E a \in s..(b - 1) : AllSpace(t, s, a - 1) /\ b \in PrefixEnds(t, a)}

\* number of the line position i lies on, from 1
LineOf(t, i) == 1 + Cardinality({k \in 1..(i - 1) : t[k] = "nl"})

\* _HEADING_RE.finditer from position from on: for each match the line on which
\* its title (the match without leading whitespace) begins
RECURSIVE finditer(_, _)
finditer(t, from) ==
    LET starts == {s \in from..Len(t) : LineStart(t, s) /\ MatchEnds(t, s) # {}}
    IN IF starts = {} THEN {}
       ELSE LET s == CHOOSE x \in starts : \A y \in starts : x <= y
                b == CHOOSE x \in MatchEnds(t, s) : \A y \in MatchEnds(t, s) : x <= y
                a == CHOOSE x \in s..b : ~IsSpace(t[x]) /\ AllSpace(t, s, x - 1)
                end == CHOOSE x \in b..(Len(t) + 1) :
                          /\ x = Len(t) + 1 \/ t[x] = "nl"
                          /\ \A k \in b..(x - 1) : t[k] # "nl"
            IN {LineOf(t, a)} \cup finditer(t, end)

InitHead ==
    /\ head_text \in UNION {[1..n -> HeadChars] : n \in 0..MaxTextLen}
    /\ heading = {}
    /\ cstate = "input"
    /\ InitIngest
    /\ raw_documents = <<>> /\ chunks = <<>>
    /\ tx = Unused /\ applied = Unused /\ op = Unused
    /\ tag_text = Unused /\ tags = Unused
    /\ env = Unused /\ loaded = Unused
    /\ batch = Unused /\ filter_args = Unused /\ filter_out = Unused

Scan ==
    /\ cstate = "input"
    /\ heading' = finditer(head_text, 1)
    /\ cstate' = "built"
    /\ UNCHANGED <<ingestVars, raw_documents, chunks, tx, applied, op, tag_text, tags,
                   head_text, env, loaded,
                   batch, filter_args, filter_out>>

NextHead == Scan

SpecHead == InitHead /\ [][NextHead]_vars

-----------------------------------------------------------------------------
(* Properties of heading detection *)

\* the characters of line n of the text, without line breaks
LineText(t, n) == SelectSeq([i \in 1..Len(t) |-> IF LineOf(t, i) = n THEN t[i] ELSE "nl"],
                            LAMBDA c : c # "nl")

\* the line by itself has the shape of a heading: optional leading whitespace,
\* then an enumerator with its whitespace, a glyph with its whitespace or a
\* bracketed label, then a non-whitespace character
HeadingShape(line) == MatchEnds(line, 1) # {}

\* C18: a line of the text is classified as a heading exactly when the line has
\* the shape of a heading.
C18_HeadingExactly ==
    cstate = "built" =>
        \A n \in 1..LineOf(head_text, Len(head_text) + 1) :
            (n \in heading) <=> HeadingShape(LineText(head_text, n))

-----------------------------------------------------------------------------
(* load_item_and_variety_aliases_async of app/rag/tagger.py *)

\* str.strip() on the strings the configurations below use
Trim(x) ==
    CASE x \in {"", " "} -> ""
      [] x = " fuji " -> "fuji"
      [] x = "pear " -> "pear"
      [] OTHER -> x

\* a mapping without entries
NoAliases == [n \in {} |-> <<>>]

\* values of RAG_ITEM_ALIASES_JSON / RAG_VARIETY_ALIASES_JSON as json.loads sees
\* them: unset, not JSON, JSON that is not an object, and objects whose values are
\* lists (of strings and numbers), a string or a number
JsonDocs ==
    LET S(x) == [type |-> "str", v |-> x]
        N == [type |-> "num", v |-> "1"]
        L(xs) == [type |-> "list", items |-> xs]
        O(es) == [kind |-> "object", entries |-> es]
    IN {[kind |-> "unset"], [kind |-> "malformed"], [kind |-> "array"],
        O(<<>>),
        O(<< <<"apple", L(<<S("apple"), S(" fuji ")>>)>> >>),
        O(<< <<"apple", L(<<S(" "), S("")>>)>> >>),
        O(<< <<"apple", L(<<>>)>>, <<" ", L(<<S("x")>>)>> >>),
        O(<< <<"pear", L(<<S("pear")>>)>>, <<"pear ", S("apple")>>, <<"apple", S(" ")>> >>),
        O(<< <<"apple", N>>, <<"pear ", L(<<S("pear")>>)>> >>),
        O(<< <<"apple", L(<<S("apple"), N>>)>> >>)}

\* the test "if arr:" of line 39 is missing: an empty alias list is kept
load_aliases_from_env_jsonKeepsEmpty(doc) ==
    IF doc.kind # "object" THEN NoAliases
    ELSE LET es == doc.entries
             named(i) == Trim(es[i][1]) # ""
             isList(i) == es[i][2].type = "list"
             raises == \E i \in 1..Len(es) :
                          /\ named(i) /\ isList(i)
                          /\ \E j \in 1..Len(es[i][2].items) : es[i][2].items[j].type = "num"
             arr(i) == IF isList(i)
                       THEN SelectSeq([j \in 1..Len(es[i][2].items) |-> Trim(es[i][2].items[j].v)],
                                      LAMBDA x : x # "")
                       ELSE <<Trim(es[i][2].v)>>
             stored(i) == /\ named(i)
                          /\ \/ isList(i)
                             \/ es[i][2].type = "str" /\ Trim(es[i][2].v) # ""
             winner(k) == CHOOSE i \in 1..Len(es) :
                           /\ stored(i) /\ Trim(es[i][1]) = k
                           /\ \A j \in (i + 1)..Len(es) : ~(stored(j) /\ Trim(es[j][1]) = k)
         IN IF raises THEN NoAliases
            ELSE [k \in {Trim(es[i][1]) : i \in {j \in 1..Len(es) : stored(j)}} |-> arr(winner(k))]

\* _load_aliases_from_env_json: {} when unset or when anything raises
load_aliases_from_env_json(doc) ==
    IF doc.kind # "object" THEN NoAliases
    ELSE LET es == doc.entries
             named(i) == Trim(es[i][1]) # ""
             isList(i) == es[i][2].type = "list"
             raises == \E i \in 1..Len(es) :
                          /\ named(i) /\ isList(i)
                          /\ \E j \in 1..Len(es[i][2].items) : es[i][2].items[j].type = "num"
             arr(i) == IF isList(i)
                       THEN SelectSeq([j \in 1..Len(es[i][2].items) |-> Trim(es[i][2].items[j].v)],
                                      LAMBDA x : x # "")
                       ELSE <<Trim(es[i][2].v)>>
             stored(i) == /\ named(i)
                          /\ \/ isList(i) /\ arr(i) # <<>>
                             \/ es[i][2].type = "str" /\ Trim(es[i][2].v) # ""
             winner(k) == CHOOSE i \in 1..Len(es) :
                           /\ stored(i) /\ Trim(es[i][1]) = k
                           /\ \A j \in (i + 1)..Len(es) : ~(stored(j) /\ Trim(es[j][1]) = k)
         IN IF raises THEN NoAliases
            ELSE [k \in {Trim(es[i][1]) : i \in {j \in 1..Len(es) : stored(j)}} |-> arr(winner(k))]

\* {n: [n]} for the non-blank names of a list: _load_aliases_from_env_list on the
\* pieces of raw.split(","), and lines 172 and 177 on the names _fetch_names returns
NamesToAliases(names) ==
    [n \in {Trim(names[i]) : i \in 1..Len(names)} \ {""} |-> <<n>>]

\* lines 180-186 and 188-195, the names transliterated
DefaultItems ==
    [n \in {"sagwa", "bae", "podo", "gamgyul", "ttalgi"} |->
        CASE n = "sagwa" -> <<"sagwa", "busa", "hongro", "fuji">>
          [] n = "bae" -> <<"bae", "singo">>
          [] n = "podo" -> <<"podo", "shinemuscat", "campbell", "campbellearly">>
          [] n = "gamgyul" -> <<"gamgyul", "gyul", "onju">>
          [] n = "ttalgi" -> <<"ttalgi">>]

DefaultVarieties ==
    [n \in {"hongro", "busa", "shinemuscat", "campbell", "singo", "onju"} |->
        CASE n = "busa" -> <<"busa", "fuji">>
          [] n = "shinemuscat" -> <<"shinemuscat", "shine muscat">>
          [] n = "campbell" -> <<"campbell", "campbellearly">>
          [] OTHER -> <<n>>]

\* the master-data query of a table: it raises (store unconfigured or unreachable,
\* table missing) or returns rows
DbStates ==
    {[kind |-> "raises"], [kind |-> "rows", rows |-> <<>>],
     [kind |-> "rows", rows |-> <<"apple", " ", "apple">>]}

\* the six sources, in the order the loader consults them
Envs ==
    [item_json : JsonDocs, variety_json : JsonDocs,
     item_names : {<<>>, <<" ">>, <<"apple", " ", "pear ">>},
     variety_names : {<<>>, <<" ">>, <<"apple", " ", "pear ">>},
     item_db : DbStates, variety_db : DbStates]

\* lines 150-197
load_item_and_variety_aliases(e) ==
    LET has(m) == DOMAIN m # {}
        i1 == load_aliases_from_env_json(e.item_json)
        v1 == load_aliases_from_env_json(e.variety_json)
        i2 == IF has(i1) THEN i1 ELSE NamesToAliases(e.item_names)
        v2 == IF has(v1) THEN v1 ELSE NamesToAliases(e.variety_names)
        \* the try block of lines 168-179: the first query that raises ends it
        itemRaises == ~has(i2) /\ e.item_db.kind = "raises"
        i3 == IF ~has(i2) /\ ~itemRaises /\ has(NamesToAliases(e.item_db.rows))
              THEN NamesToAliases(e.item_db.rows) ELSE i2
        v3 == IF /\ ~itemRaises /\ ~has(v2) /\ e.variety_db.kind = "rows"
                 /\ has(NamesToAliases(e.variety_db.rows))
              THEN NamesToAliases(e.variety_db.rows) ELSE v2
    IN IF has(i1) /\ has(v1) THEN <<i1, v1>>
       ELSE IF has(i2) /\ has(v2) THEN <<i2, v2>>
       ELSE <<IF has(i3) THEN i3 ELSE DefaultItems,
              IF has(v3) THEN v3 ELSE DefaultVarieties>>

InitAlias ==
    /\ env \in Envs
    /\ loaded = <<NoAliases, NoAliases>>
    /\ cstate = "input"
    /\ InitIngest
    /\ raw_documents = <<>> /\ chunks = <<>>
    /\ tx = Unused /\ applied = Unused /\ op = Unused
    /\ tag_text = Unused /\ tags = Unused
    /\ head_text = Unused /\ heading = Unused
    /\ batch = Unused /\ filter_args = Unused /\ filter_out = Unused

Load ==
    /\ cstate = "input"
    /\ loaded' = load_item_and_variety_aliases(env)
    /\ cstate' = "built"
    /\ UNCHANGED <<ingestVars, raw_documents, chunks, tx, applied, op, tag_text, tags,
                   head_text, heading, env, batch, filter_args, filter_out>>

NextAlias == Load

SpecAlias == InitAlias /\ [][NextAlias]_vars

-----------------------------------------------------------------------------
(* Properties of the alias loader *)

\* the first non-empty of: structured configuration, flat list, master data
\* (empty when the query raises), built-in defaults
Resolve(json, names, db, defaults) ==
    LET fromDb == IF db.kind = "rows" THEN NamesToAliases(db.rows) ELSE NoAliases
    IN IF DOMAIN load_aliases_from_env_json(json) # {} THEN load_aliases_from_env_json(json)
       ELSE IF DOMAIN NamesToAliases(names) # {} THEN NamesToAliases(names)
       ELSE IF DOMAIN fromDb # {} THEN fromDb
       ELSE defaults

\* C19: the items come from the first non-empty source of the items and the
\* varieties from the first non-empty source of the varieties, whatever the state
\* of the sources of the other kind.
C19_Independent ==
    cstate = "built" =>
        /\ loaded[1] = Resolve(env.item_json, env.item_names, env.item_db, DefaultItems)
        /\ loaded[2] = Resolve(env.variety_json, env.variety_names, env.variety_db,
                               DefaultVarieties)

\* C20: both mappings returned are non-empty, and every canonical name, itself
\* non-blank, maps to a non-empty list of non-blank aliases.
C20_NonEmptyMappings ==
    cstate = "built" =>
        \A m \in {loaded[1], loaded[2]} :
            /\ DOMAIN m # {}
            /\ \A n \in DOMAIN m :
                  /\ n # ""
                  /\ Len(m[n]) >= 1
                  /\ \A j \in 1..Len(m[n]) : m[n][j] # ""

C20_Witness ==
    /\ cstate = "built"
    /\ env.item_json.kind = "malformed"
    /\ env.item_names = <<" ">>
    /\ env.item_db.kind = "raises"
    /\ loaded[1] = DefaultItems
    /\ env.variety_json.kind = "object"
    /\ env.variety_json.entries # <<>>
    /\ DOMAIN load_aliases_from_env_json(env.variety_json) = {}
    /\ env.variety_names = <<>>
    /\ env.variety_db = [kind |-> "rows", rows |-> <<>>]
    /\ loaded[2] = DefaultVarieties

-----------------------------------------------------------------------------
(* Properties of the alias load across invocations *)

\* ingest.py line 267 and tagger.py lines 150-197: the invocation reached the
\* loader, which reads the environment and, when that is empty, queries MariaDB
LoadedAliases(r) == Succeeded(r, "load_aliases")

\* C21: the alias table is cached for the life of the process: once an ingest
\* invocation has loaded it (the previous invocation returned SUCCESS, so it
\* went through the loader), a later invocation does not consult the alias
\* sources again.  No argument of ingest_pdf_report or of the loader asks for
\* a fresh load, so every second load counts.
C21_AliasSourcesOnce ==
    \A p \in SeqProcs :
        last.outcome = "SUCCESS" => ~LoadedAliases(inv[p])

-----------------------------------------------------------------------------
(* The batch runs: the seed loop of lifespan and the folder loop of          *)
(* process_all_files                                                        *)

MaxStarts == 2

\* glob.glob(os.path.join(dir, "*.pdf")): the PDF files of the folder, in glob order
pdf_files == <<"seeds/a.pdf", "seeds/b.pdf">>

\* the state of a run that has not looked at a file yet
NewBatch(mode, starts) ==
    [mode |-> mode, i |-> 1, phase |-> "call", handed |-> <<>>, outcomes |-> <<>>,
     success_count |-> 0, fail_count |-> 0, done |-> FALSE, starts |-> starts]

InitBatch ==
    /\ InitIngest
    /\ batch \in {NewBatch(mode, 1) : mode \in {"lifespan", "process_all_files"}}
    /\ raw_documents = <<>> /\ chunks = <<>> /\ cstate = "unused"
    /\ tx = Unused /\ applied = Unused /\ op = Unused
    /\ tag_text = Unused /\ tags = Unused
    /\ head_text = Unused /\ heading = Unused
    /\ env = Unused /\ loaded = Unused
    /\ filter_args = Unused /\ filter_out = Unused

\* main.py lines 73-84: the next seed is handed to ingest_pdf_report with force=True
LifespanCall ==
    /\ batch.mode = "lifespan" /\ ~batch.done
    /\ batch.phase = "call" /\ batch.i <= Len(pdf_files)
    /\ Start("t1", pdf_files[batch.i], "seed_category", None, "System_Seed",
             DEFAULT_COLLECTION, TRUE)
    /\ batch' = [batch EXCEPT !.phase = "await", !.handed = Append(@, pdf_files[batch.i])]

\* the body of ingest_pdf_report after the dedup gate, one collaborator call at a time
Body(p) ==
    \/ AliasLoad(p)
    \/ ForcedDelete(p)
    \/ LoadPages(p)
    \/ BuildChunks(p)
    \/ TagChunk(p)
    \/ BulkWrite(p)
    \/ UpsertSuccess(p)
    \/ HandleException(p)

\* main.py line 78: the loop is suspended in "await" while the invocation runs
LifespanAwait ==
    /\ batch.mode = "lifespan" /\ batch.phase = "await"
    /\ Body("t1")
    /\ UNCHANGED batch

\* the first result that is not SUCCESS ends the loop
LifespanResumeStops ==
    /\ batch.mode = "lifespan" /\ batch.phase = "await"
    /\ inv["t1"].pc \in Terminal
    /\ batch' = [batch EXCEPT !.phase = "call",
                              !.outcomes = Append(@, Outcome(inv["t1"])),
                              !.i = IF Outcome(inv["t1"]) = "SUCCESS"
                                    THEN @ + 1 ELSE Len(pdf_files) + 1]
    /\ UNCHANGED <<ingestVars, chunkVars, otherVars>>

\* main.py lines 86-88: the invocation returned (any status) or raised an
\* Exception, which the handler of line 87 logs; the loop goes to the next file
LifespanResume ==
    /\ batch.mode = "lifespan" /\ batch.phase = "await"
    /\ inv["t1"].pc \in Terminal
    /\ batch' = [batch EXCEPT !.phase = "call",
                              !.outcomes = Append(@, Outcome(inv["t1"])),
                              !.i = @ + 1]
    /\ UNCHANGED <<ingestVars, chunkVars, otherVars>>

\* bulk_ingest.py lines 32-64: process_all_files is a plain function and line 59
\* calls the coroutine function without await; the call builds a coroutine
\* object that is dropped, the body of ingest_pdf_report does not run and
\* nothing can raise, so line 60 counts the file and lines 62-64 are never taken
ProcessAllFilesCall ==
    /\ batch.mode = "process_all_files" /\ ~batch.done
    /\ batch.phase = "call" /\ batch.i <= Len(pdf_files)
    /\ batch' = [batch EXCEPT !.handed = Append(@, pdf_files[batch.i]),
                              !.outcomes = Append(@, "NEVER_AWAITED"),
                              !.success_count = @ + 1,
                              !.i = @ + 1]
    /\ UNCHANGED <<ingestVars, chunkVars, otherVars>>

\* the for loop is exhausted: main.py lines 90 and 96 (yield), bulk_ingest.py line 64
BatchEnd ==
    /\ ~batch.done /\ batch.phase = "call" /\ batch.i > Len(pdf_files)
    /\ batch' = [batch EXCEPT !.done = TRUE]
    /\ UNCHANGED <<ingestVars, chunkVars, otherVars>>

\* the process is started again over the same files and the same database
Restart ==
    /\ batch.done /\ batch.starts < MaxStarts
    /\ batch' = NewBatch(batch.mode, batch.starts + 1)
    /\ UNCHANGED <<ingestVars, chunkVars, otherVars>>

NextBatch ==
    \/ LifespanCall
    \/ LifespanAwait
    \/ LifespanResume
    \/ ProcessAllFilesCall
    \/ BatchEnd
    \/ Restart

SpecBatch == InitBatch /\ [][NextBatch]_vars

-----------------------------------------------------------------------------
(* Properties of the batch runs *)

Unfinished == {"FAILED", "RAISED"}
Attempted == {"SUCCESS", "SKIPPED", "FAILED", "RAISED"}

\* C22: in a batch run a FAILED result or an error for one file never stops the
\* run: the files are handed to ingest_pdf_report in folder order, the run ends
\* only after the last file, and every file after a failed one was handed over
\* and made its own attempt, which reached a terminal outcome.
C22_BatchNeverStops ==
    /\ batch.handed = SubSeq(pdf_files, 1, Len(batch.handed))
    /\ batch.done => Len(batch.handed) = Len(pdf_files)
    /\ \A j \in 1..Len(batch.outcomes) :
          batch.outcomes[j] \in Unfinished =>
             /\ batch.i > j
             /\ batch.done =>
                   \A n \in (j+1)..Len(pdf_files) :
                      /\ batch.handed[n] = pdf_files[n]
                      /\ n <= Len(batch.outcomes)
                      /\ batch.outcomes[n] \in Attempted

C22_Witness ==
    /\ batch.done /\ batch.mode = "lifespan"
    /\ batch.outcomes[1] \in Unfinished
    /\ batch.outcomes[2] = "SUCCESS"
    /\ registry[<<DEFAULT_COLLECTION, "sha_a">>].status # "SUCCESS"
    /\ registry[<<DEFAULT_COLLECTION, "sha_b">>].status = "SUCCESS"

-----------------------------------------------------------------------------
(* _filter_docs_by_tags of app/rag/service.py *)

MaxDocs == 3
MaxK == 2

\* a metadata value: a key that is absent, a list of names, or a single string
\* (kept as the one-element sequence of its text)
Missing == [kind |-> "missing"]
ListOf(s) == [kind |-> "list", v |-> s]
StrOf(x) == [kind |-> "str", v |-> <<x>>]

\* python truthiness of md.get(key): None, [] and "" are falsy
Truthy(x) == x.kind # "missing" /\ x.v # <<>> /\ ~(x.kind = "str" /\ x.v = <<"">>)

\* lines 95-100: "md.get(plural) or md.get(singular) or []", a string becomes [string]
TagList(plural, singular) ==
    LET x == IF Truthy(plural) THEN plural
             ELSE IF Truthy(singular) THEN singular ELSE ListOf(<<>>)
    IN x.v

\* lines 102-107: the two tests a document has to pass
Passes(d, item_name, variety_name) ==
    LET md == d.metadata
        item_tags == TagList(md.item_tags, md.item_tag)
        variety_tags == TagList(md.variety_tags, md.variety_tag)
        In(x, s) == \E n \in 1..Len(s) : s[n] = x
    IN /\ (item_name # None => In(item_name, item_tags))
       /\ (variety_name # None => In(variety_name, variety_tags))

\* the loop of lines 92-111 from document number n on, out being what was kept so far
RECURSIVE FilterLoop(_, _, _, _, _, _)
\* the test of line 110 is missing: every passing document is kept
FilterLoopNoLimit(docs, n, out, item_name, variety_name, k) ==
    IF n > Len(docs) THEN out
    ELSE IF ~Passes(docs[n], item_name, variety_name)
    THEN FilterLoop(docs, n + 1, out, item_name, variety_name, k)
    ELSE FilterLoop(docs, n + 1, Append(out, docs[n]), item_name, variety_name, k)

FilterLoop(docs, n, out, item_name, variety_name, k) ==
    IF n > Len(docs) THEN out
    ELSE IF ~Passes(docs[n], item_name, variety_name)
    THEN FilterLoop(docs, n + 1, out, item_name, variety_name, k)
    ELSE IF Len(out) + 1 >= k THEN Append(out, docs[n])
    ELSE FilterLoop(docs, n + 1, Append(out, docs[n]), item_name, variety_name, k)

filter_docs_by_tags(docs, item_name, variety_name, k) ==
    FilterLoop(docs, 1, <<>>, item_name, variety_name, k)

\* the metadata ingest_pdf_report writes (lines 302-303: both keys, lists), plus a
\* document without item_tags and one whose item_tags is a single string
Metadatas ==
    {[item_tags |-> it, item_tag |-> Missing, variety_tags |-> vt, variety_tag |-> Missing] :
        it \in {Missing, ListOf(<<"pear">>), ListOf(<<"pear", "apple">>), StrOf("apple")},
        vt \in {ListOf(<<>>), ListOf(<<"fuji">>)}}

\* the documents of a search result, each known by its rank
DocLists(max) ==
    UNION {{[n \in 1..len |-> [rank |-> n, metadata |-> ms[n]]] : ms \in [1..len -> Metadatas]} :
              len \in 0..max}

\* search_general_reports (line 146) and its callers pass k = 3, 5 or 8: k >= 1
InitFilter ==
    /\ InitIngest
    /\ filter_args \in [docs : DocLists(MaxDocs), item_name : {None, "apple"},
                        variety_name : {None, "fuji"}, k : 1..MaxK]
    /\ filter_out = <<>>
    /\ cstate = "input"
    /\ raw_documents = <<>> /\ chunks = <<>>
    /\ tx = Unused /\ applied = Unused /\ op = Unused
    /\ tag_text = Unused /\ tags = Unused
    /\ head_text = Unused /\ heading = Unused
    /\ env = Unused /\ loaded = Unused
    /\ batch = Unused

Filter ==
    /\ cstate = "input"
    /\ filter_out' = filter_docs_by_tags(filter_args.docs, filter_args.item_name,
                                         filter_args.variety_name, filter_args.k)
    /\ cstate' = "built"
    /\ UNCHANGED <<ingestVars, raw_documents, chunks, tx, applied, op, tag_text, tags,
                   head_text, heading, env, loaded, batch, filter_args>>

NextFilter == Filter

SpecFilter == InitFilter /\ [][NextFilter]_vars

-----------------------------------------------------------------------------
(* Properties of _filter_docs_by_tags *)

\* the names a metadata value holds under its plural key
Names(x) == IF x.kind = "missing" THEN {} ELSE {x.v[n] : n \in 1..Len(x.v)}

\* C23: _filter_docs_by_tags returns documents of the input in input order, each
\* with item_name among its item_tags when item_name is given and variety_name
\* among its variety_tags when variety_name is given, and never more than k.
C23_FilterByTags ==
    cstate = "built" /\ filter_args # Unused =>
        LET a == filter_args
        IN /\ Len(filter_out) <= a.k
           /\ \A n \in 1..Len(filter_out) :
                 LET d == filter_out[n]
                 IN /\ d.rank \in 1..Len(a.docs) /\ a.docs[d.rank] = d
                    /\ (n > 1 => filter_out[n-1].rank < d.rank)
                    /\ (a.item_name # None => a.item_name \in Names(d.metadata.item_tags))
                    /\ (a.variety_name # None =>
                           a.variety_name \in Names(d.metadata.variety_tags))

\* more documents pass than k allows, and one that lacks a requested tag stands
\* before one that is returned
C23_Witness ==
    /\ cstate = "built" /\ filter_args # Unused
    /\ filter_args.item_name = "apple" /\ filter_args.variety_name = "fuji"
    /\ filter_args.k = 1
    /\ Len(filter_args.docs) = 3
    /\ filter_args.docs[1].metadata.variety_tags = ListOf(<<>>)
    /\ \A n \in 2..3 : Passes(filter_args.docs[n], "apple", "fuji")
    /\ Len(filter_out) = 1 /\ filter_out[1].rank = 2

-----------------------------------------------------------------------------
(* Properties of a forced re-ingest that fails after its delete *)

\* a forced invocation over a SUCCESS row whose delete went through and whose
\* page extraction (lines 274-275) raised, at its end
FailedAfterDelete(p) ==
    /\ Ended(p)
    /\ inv[p].force /\ inv[p].existed
    /\ Succeeded(inv[p], "delete_vectors_by_doc_id")
    /\ Failed(inv[p], "load")

\* C24 as stated: such an invocation ends with zero vectors for the doc_id and a
\* FAILED row in place of the SUCCESS row.
C24_FailedRowAfterDelete ==
    \A p \in SeqProcs :
        FailedAfterDelete(p) =>
            /\ VectorCount(pg_embedding, inv[p].collection_name, inv[p].file_hash) = 0
            /\ registry[KeyOf(inv[p])].status = "FAILED"

\* C24 amended: such an invocation ends with zero vectors for the doc_id; when
\* the registry_upsert_failed of the handler succeeds it returns FAILED, the
\* SUCCESS row is overwritten by a FAILED row with the extraction error, and the
\* dedup gate of a following unforced ingest does not skip; when that upsert
\* raises, the error leaves the function and the row is still SUCCESS.
C24_ZeroVectorsAndFailedRow ==
    \A p \in SeqProcs :
        FailedAfterDelete(p) =>
            /\ VectorCount(pg_embedding, inv[p].collection_name, inv[p].file_hash) = 0
            /\ Called(inv[p], "from_documents") = {}
            /\ Succeeded(inv[p], "registry_upsert_failed") =>
                  /\ inv[p].pc = "returned" /\ inv[p].result.status = "FAILED"
                  /\ registry[KeyOf(inv[p])].status = "FAILED"
                  /\ registry[KeyOf(inv[p])].error = "load_error"
                  /\ ~registry_exists(registry, inv[p].collection_name, inv[p].file_hash)
            /\ Failed(inv[p], "registry_upsert_failed") =>
                  /\ inv[p].pc = "raised"
                  /\ registry[KeyOf(inv[p])].status = "SUCCESS"

\* the file had chunks in the store, and the FAILED row is in place
C24_Witness ==
    \E p \in SeqProcs :
        /\ FailedAfterDelete(p)
        /\ FileChunks(inv[p].file_path) # <<>>
        /\ last.outcome = "SUCCESS" /\ last.file_hash = inv[p].file_hash
        /\ Succeeded(inv[p], "registry_upsert_failed")
        /\ registry[KeyOf(inv[p])].status = "FAILED"

-----------------------------------------------------------------------------
(* Two overlapping invocations for one file that was not ingested yet *)

\* each caller invokes ingest_pdf_report once, with force=false, on the same file
RaceStart(p) ==
    /\ inv[p].pc = "idle"
    /\ Start(p, "seeds/a.pdf", "seed_category", None, "System_Seed", DEFAULT_COLLECTION, FALSE)

\* no lock: the steps of the two invocations interleave in every order
\* (force is false, so the delete of lines 270-271 is not among them)
NextRace ==
    \E p \in Procs :
       /\ \/ RaceStart(p)
          \/ AliasLoad(p)
          \/ LoadPages(p)
          \/ BuildChunks(p)
          \/ TagChunk(p)
          \/ BulkWrite(p)
          \/ UpsertSuccess(p)
          \/ HandleException(p)
       /\ UNCHANGED batch

SpecRace == Init /\ [][NextRace]_vars

-----------------------------------------------------------------------------
(* Properties of the race between registry_exists and the upsert *)

\* both invocations ran to their end without a failing collaborator, and each
\* made its registry check while the row was not SUCCESS, that is, before the
\* other one committed
Overlapped ==
    \A p \in Procs :
        /\ Ended(p) /\ Clean(inv[p])
        /\ Succeeded(inv[p], "registry_exists")
        /\ ~inv[p].existed

\* C25: two overlapping unforced invocations of the same new file both pass the
\* check, both make the bulk write and both return SUCCESS; the registry holds
\* one row, SUCCESS, and the store holds every chunk of the file twice.
C25_BothWriteTwoCopies ==
    Overlapped =>
        /\ \A p \in Procs :
              /\ inv[p].pc = "returned" /\ inv[p].result.status = "SUCCESS"
              /\ NumCalls(inv[p], "from_documents") = 1
              /\ NumCalls(inv[p], "registry_upsert_success") = 1
        /\ RowKeys(registry) = {<<DEFAULT_COLLECTION, "sha_a">>}
        /\ registry[<<DEFAULT_COLLECTION, "sha_a">>].status = "SUCCESS"
        /\ FileChunks("seeds/a.pdf") # <<>>
        /\ \A n \in 1..Len(FileChunks("seeds/a.pdf")) :
              Copies(pg_embedding, DEFAULT_COLLECTION, "sha_a", str(n - 1)) = 2
        /\ VectorCount(pg_embedding, DEFAULT_COLLECTION, "sha_a")
              = 2 * Len(FileChunks("seeds/a.pdf"))

C25_Witness ==
    /\ Overlapped
    /\ \A p \in Procs : inv[p].file_path = "seeds/a.pdf" /\ ~inv[p].force
    /\ VectorCount(pg_embedding, DEFAULT_COLLECTION, "sha_a") = 4

-----------------------------------------------------------------------------
(* Cancellation of an invocation in flight *)

\* where an invocation stands before its bulk write has been called
BeforeWrite == {"alias", "delete", "load", "chunk", "tag", "write"}

\* asyncio.CancelledError were an Exception: the handler of line 340 catches it
CancelCaught(p) ==
    /\ inv[p].pc \in BeforeWrite
    /\ inv' = [inv EXCEPT ![p].pc = "except", ![p].exc = "CancelledError"]
    /\ UNCHANGED <<registry, pg_collection, pg_embedding, last, chunkVars, otherVars>>

\* the caller aborts the invocation: the task is cancelled at the await of line
\* 267, or the worker is stopped during one of the blocking calls that follow.
\* asyncio.CancelledError is a BaseException, which "except Exception" (line 340)
\* does not catch, so no line of the function runs after the abort.
Cancel(p) ==
    /\ inv[p].pc \in BeforeWrite
    /\ inv' = [inv EXCEPT ![p].pc = "raised", ![p].exc = "CancelledError"]
    /\ UNCHANGED <<registry, pg_collection, pg_embedding, last, chunkVars, otherVars>>

NextCancel == (\E p \in SeqProcs : Step(p) \/ Cancel(p)) /\ UNCHANGED batch

SpecCancel == Init /\ [][NextCancel]_vars

-----------------------------------------------------------------------------
(* Properties of cancellation *)

Cancelled(r) == r.exc = "CancelledError"

\* C26: an invocation cancelled before its bulk write, also after a forced
\* delete, leaves the registry as it was when the invocation started: none of
\* its steps up to and including the cancellation changes a row, and it made no
\* bulk write, no upsert_success and no upsert_failed.  The retry that follows
\* meets the dedup gate as a first attempt meets it: it is SKIPPED exactly when
\* it is unforced and the row it finds is SUCCESS.
C26_CancelLeavesRegistry ==
    [][\A p \in SeqProcs :
          /\ inv[p].pc \in BeforeWrite => registry' = registry
          /\ Cancelled(inv'[p]) =>
                /\ inv[p].pc \in BeforeWrite \/ inv'[p] = inv[p]
                /\ inv'[p].pc = "raised"
                /\ NumCalls(inv'[p], "from_documents") = 0
                /\ NumCalls(inv'[p], "registry_upsert_success") = 0
                /\ NumCalls(inv'[p], "registry_upsert_failed") = 0
          /\ (Cancelled(inv[p]) /\ inv'[p] # inv[p] /\ Succeeded(inv'[p], "registry_exists")) =>
                (inv'[p].result.status = "SKIPPED"
                    <=> registry_exists(registry, inv'[p].collection_name, inv'[p].file_hash))
    ]_vars

\* cancelled after the forced delete of a document that was ingested: the
\* vectors are gone and the row is still SUCCESS
C26_Witness ==
    \E p \in SeqProcs :
        /\ Cancelled(inv[p]) /\ inv[p].force /\ inv[p].existed
        /\ Succeeded(inv[p], "delete_vectors_by_doc_id")
        /\ FileChunks(inv[p].file_path) # <<>>
        /\ VectorCount(pg_embedding, inv[p].collection_name, inv[p].file_hash) = 0
        /\ registry[KeyOf(inv[p])].status = "SUCCESS"

-----------------------------------------------------------------------------
(* Properties of split_by_headings *)

\* the first heading line of a text that has one
FirstHeading(t) == CHOOSE i \in HeadingLines(t) : \A j \in HeadingLines(t) : i <= j

\* C27: on a page that has a heading and non-blank text before its first
\* heading, split_by_headings returns that text as a first section with an empty
\* title, and the chunks built from the page begin with that section.
C27_PreambleSection ==
    cstate = "built" =>
        \A pidx \in 1..Len(raw_documents) :
            LET t == Strip(raw_documents[pidx].page_content)
            IN (HeadingLines(t) # {} /\ FirstHeading(t) > 1) =>
                  /\ split_by_headings(t)[1]
                        = [title |-> "", body |-> Strip(SubSeq(t, 1, FirstHeading(t) - 1))]
                  /\ \E n \in 1..Len(chunks) :
                        /\ chunks[n].origin = <<pidx, 1, 1>>
                        /\ chunks[n].metadata.section_title = ""

-----------------------------------------------------------------------------
(* Properties of process_all_files *)

\* C28: when process_all_files has gone through the folder, the body of
\* ingest_pdf_report has run to a terminal outcome for every PDF file, the
\* chunks of the files are in the store, and success_count is the number of
\* files whose ingestion ran and did not fail.
C28_BulkIngestsEveryFile ==
    (batch # Unused /\ batch.mode = "process_all_files" /\ batch.done) =>
        /\ \A n \in 1..Len(pdf_files) :
              /\ batch.outcomes[n] \in Attempted
              /\ VectorCount(pg_embedding, DEFAULT_COLLECTION, sha256_file(pdf_files[n]))
                    >= Len(FileChunks(pdf_files[n]))
        /\ batch.success_count
              = Cardinality({n \in 1..Len(pdf_files) : batch.outcomes[n] \in {"SUCCESS", "SKIPPED"}})

-----------------------------------------------------------------------------
(* Properties of the two stores taken together *)

\* the store holds the chunks of the file of fingerprint h once each, and no
\* other vector of that doc_id
OneChunkSet(c, h) ==
    LET set == FileChunks(FileOfHash(h))
    IN /\ VectorCount(pg_embedding, c, h) = Len(set)
       /\ \A n \in 1..Len(set) : Copies(pg_embedding, c, h, str(n - 1)) = 1

\* C29: whenever no invocation is in flight, a SUCCESS row stands for exactly
\* one complete chunk set of its doc_id in the store (none for a document
\* without chunks), and a FAILED or absent row stands for no vector of that
\* doc_id, so that a document with chunks is SUCCESS exactly when its one
\* chunk set is stored.
C29_StoresAgreeAtRest ==
    (\A p \in SeqProcs : inv[p].pc \in Terminal \cup {"idle"}) =>
        \A k \in Keys :
            /\ registry[k].status = "SUCCESS" => OneChunkSet(k[1], k[2])
            /\ registry[k].status # "SUCCESS" => VectorCount(pg_embedding, k[1], k[2]) = 0

-----------------------------------------------------------------------------
(* Properties of the startup seeding *)

\* C30: lifespan hands every seed to ingest_pdf_report with force=true on every
\* start; a start ends (the application comes up) only after every seed had its
\* attempt, whatever the attempts of the other seeds did; and at the end of a
\* start in which every seed returned SUCCESS - whatever happened in earlier
\* starts - the store holds each seed's chunk set exactly once and each seed's
\* row is SUCCESS.
C30_SeedingRerunnable ==
    batch.mode = "lifespan" =>
        /\ batch.phase = "await" =>
              /\ inv["t1"].force
              /\ inv["t1"].file_path = pdf_files[batch.i]
        /\ batch.done =>
              /\ batch.handed = pdf_files
              /\ Len(batch.outcomes) = Len(pdf_files)
              /\ \A n \in 1..Len(pdf_files) : batch.outcomes[n] \in Attempted
        /\ (batch.done /\ \A n \in 1..Len(batch.outcomes) : batch.outcomes[n] = "SUCCESS") =>
              \A n \in 1..Len(pdf_files) :
                 /\ OneChunkSet(DEFAULT_COLLECTION, sha256_file(pdf_files[n]))
                 /\ registry[<<DEFAULT_COLLECTION, sha256_file(pdf_files[n])>>].status = "SUCCESS"

\* the end of a second start without failures, over the rows and vectors the
\* first start left
C30_Witness ==
    /\ batch.mode = "lifespan" /\ batch.done /\ batch.starts = 2
    /\ \A n \in 1..Len(pdf_files) : batch.outcomes[n] = "SUCCESS"
    /\ last.existed /\ last.force /\ last.deletes = 1
    /\ inv["t1"].existed
    /\ VectorCount(pg_embedding, DEFAULT_COLLECTION, "sha_a") = 2

=============================================================================
